---- MODULE Spec2Model ----
(***************************************************************************)
(* Persistent memory layer: the write coordination between the relational  *)
(* store (SQLAlchemy session per request) and the vector index (Qdrant),   *)
(* as implemented by MemoryService and VectorService.                      *)
(*                                                                         *)
(* Every request runs in its own session.  A request is a sequence of      *)
(* steps, one per awaited call to a store or to the embedding generator;   *)
(* requests of different clients interleave between those steps.           *)
(***************************************************************************)
EXTENDS Integers, Sequences, FiniteSets, TLC

(* ------------------------------ bounds -------------------------------- *)

\* Requests started in one behaviour.
MaxOps == 3

\* Failures (embedding, index write, index delete, relational commit) the
\* environment injects in one behaviour.
MaxFaults == 1

Procs == {"p1", "p2"}

(* --------------------------- values and rows -------------------------- *)

\* Python's None for the optional string columns.
None == "None"

\* Python's None for the optional integer importance_score (Optional[int]),
\* NULL in the Integer column: a value outside every integer a request can
\* carry, kept an integer so that columns stay comparable.
NullInt == 0 - 1

\* The session holds no object / the call returned no Memory.
NoMemory == [id |-> 0]

\* MemoryCreate values as create_memory receives them (validated drafts).
Draft(c, ctx, tg, imp) ==
    [content |-> c, context |-> ctx, tags |-> tg, metadata |-> "m0",
     user_id |-> "u1", conversation_id |-> None, importance_score |-> imp]

Drafts == { Draft("ab", None, <<>>, 1), Draft("b", "work", <<"t1">>, 7) }

\* MemoryUpdate values: a patch is the mapping of the fields that were set
\* (memory_update.dict(exclude_unset=True)).
Patches ==
    { [content |-> "b"],
      [context |-> "home"],
      [content |-> "ab", context |-> "home"],
      [importance_score |-> 5, tags |-> <<"t2">>, metadata |-> "m1"] }

\* str(memory.id): the key of the vector index is the string form of the id.
Str(id) == ToString(id)

\* The external embedding model: a vector determined by the text.
Embedding(text) == <<"emb", text>>

\* Column(Integer, default=1): the INSERT leaves out an attribute that is
\* None, and the column's default is stored in its place.
ColumnDefault(v, default) == IF v = NullInt THEN default ELSE v

\* A row whose last_accessed is given the insert time as a default.
NewMemoryStamped(id, d, t) ==
    [id |-> id, content |-> d.content, context |-> d.context, tags |-> d.tags,
     metadata |-> d.metadata, user_id |-> d.user_id,
     conversation_id |-> d.conversation_id,
     importance_score |-> ColumnDefault(d.importance_score, 1),
     access_count |-> 0,
     created_at |-> t, updated_at |-> t, last_accessed |-> <<t>>,
     vector_id |-> None]

\* Memory(...) as inserted by the flush: the column defaults applied, the
\* server clock t for created_at / updated_at, vector_id still NULL.
NewMemory(id, d, t) ==
    [id |-> id, content |-> d.content, context |-> d.context, tags |-> d.tags,
     metadata |-> d.metadata, user_id |-> d.user_id,
     conversation_id |-> d.conversation_id,
     importance_score |-> ColumnDefault(d.importance_score, 1),
     access_count |-> 0,
     created_at |-> t, updated_at |-> t, last_accessed |-> <<>>,
     vector_id |-> None]

(* --------------------------- pure helpers ----------------------------- *)

\* Python truthiness of an optional string (`if memory_update.content:`).
Truthy(v) == v # None /\ v # ""

\* None in the tags column (an array column: its values are sequences).
NoTags == <<None>>

\* `x or []` for the tags column.
OrEmpty(tg) == IF tg = NoTags THEN <<>> ELSE tg

\* vector_metadata: the filterable attributes copied into the payload.
VectorMetadata(m) ==
    [context |-> m.context, user_id |-> m.user_id,
     conversation_id |-> m.conversation_id,
     importance_score |-> m.importance_score, tags |-> OrEmpty(m.tags)]

\* Mutant of Point: the metadata is not spread into the payload.
PointWithoutMetadata(memory_id, content, metadata) ==
    [vector |-> Embedding(content),
     payload |-> [content |-> content, memory_id |-> memory_id,
                  context |-> None, user_id |-> None, conversation_id |-> None,
                  importance_score |-> 1, tags |-> <<>>]]

\* PointStruct(id, vector, payload={"content", "memory_id", **metadata}).
Point(memory_id, content, metadata) ==
    [vector |-> Embedding(content),
     payload |-> [content |-> content, memory_id |-> memory_id,
                  context |-> metadata.context, user_id |-> metadata.user_id,
                  conversation_id |-> metadata.conversation_id,
                  importance_score |-> metadata.importance_score,
                  tags |-> metadata.tags]]

\* The upsert that stores nothing.
UpsertDrops(vi, key, point) == vi

\* client.upsert(points=[point]) on index vi.
Upsert(vi, key, point) == [k \in DOMAIN vi \cup {key} |-> IF k = key THEN point ELSE vi[k]]

\* client.delete(points=[memory_id]) on index vi: an absent key is no error.
DeletePoint(vi, key) == [k \in DOMAIN vi \ {key} |-> vi[k]]

\* A store_memory that hands back no key.
StoreMemoryResultNone(memory_id) == None

\* store_memory returns the key under which it stored the point.
StoreMemoryResult(memory_id) == memory_id

\* A patch applied without exclude_unset: a field the caller left out is
\* written back as its default.
ApplyPatchResetsContext(m, patch) ==
    [f \in DOMAIN m |->
        IF f \in DOMAIN patch THEN patch[f]
        ELSE IF f = "context" THEN None ELSE m[f]]

\* The column a patch field is written to (metadata -> metadata_json; the
\* model names that column metadata).
ApplyPatch(m, patch) ==
    [f \in DOMAIN m |-> IF f \in DOMAIN patch THEN patch[f] ELSE m[f]]

\* Mutant of ReindexWanted: the re-index is skipped.
ReindexNever(patch) == FALSE

\* `if memory_update.content:` -- the guard of the re-index.
ReindexWanted(patch) == "content" \in DOMAIN patch /\ Truthy(patch.content)

\* The tracking guard without its flag: every read that finds a row counts.
UpdateAccessAlways(found, update_access) == found

\* `if memory and update_access:`
UpdateAccess(found, update_access) == found /\ update_access

\* The access stamp without the increment.
TouchKeepsCount(m, t) == [m EXCEPT !.last_accessed = <<t>>]

\* memory.access_count += 1; memory.last_accessed = datetime.now(timezone.utc)
Touch(m, t) == [m EXCEPT !.access_count = @ + 1, !.last_accessed = <<t>>]

\* The columns the flush of a dirty object writes: those whose value differs
\* from the value loaded (the unit of work emits net changes only).
Dirty(obj, orig) == {f \in DOMAIN obj : obj[f] # orig[f]}

\* An UPDATE is emitted when some column is dirty, and then it carries
\* updated_at as well (onupdate=func.now()).
FlushColumns(obj, orig) ==
    IF Dirty(obj, orig) = {} THEN {} ELSE Dirty(obj, orig) \cup {"updated_at"}

\* content = Column(Text, nullable=False): the statement that would store
\* NULL there is refused by the database.
NotNull(obj) == obj.content # None

\* INSERT / UPDATE / DELETE on the committed table.
InsertRow(rs, m) == [i \in DOMAIN rs \cup {m.id} |-> IF i = m.id THEN m ELSE rs[i]]

UpdateRow(rs, id, obj, cols) ==
    [i \in DOMAIN rs |->
        IF i = id
        THEN [f \in DOMAIN rs[i] |-> IF f \in cols THEN obj[f] ELSE rs[i][f]]
        ELSE rs[i]]

\* The DELETE that is never issued.
DeleteRowKeeps(rs, id) == rs

DeleteRow(rs, id) == [i \in DOMAIN rs \ {id} |-> rs[i]]

\* Mutant of Flush: the INSERT is committed at once.
FlushCommits(rs, m) == InsertRow(rs, m)

\* Mutant of Rollback: the pending changes of the object are written.
RollbackWritesDirty(rs, m) ==
    IF m.id \in DOMAIN rs THEN UpdateRow(rs, m.id, m, DOMAIN m) ELSE rs

\* db.flush() of a pending INSERT: the row exists inside the open
\* transaction only; the committed table is what other sessions see.
Flush(rs, m) == rs

\* db.rollback(): the open transaction's statements are discarded.
Rollback(rs, m) == rs

(* ------------------------------- state -------------------------------- *)

VARIABLES
    rows,     \* the committed table: id -> row
    vindex,   \* the vector index: str(id) -> point
    nextId,   \* ids generated so far (uuid4: never reused)
    now,      \* the clock
    pc,       \* position of each request handler
    req,      \* the request each handler serves
    sess,     \* each session's object: obj (as mutated) and orig (as loaded)
    res,      \* what the handler returned, or that it raised
    ops,      \* requests started
    faults,   \* failures injected
    requests, \* the rate limiter's window of each client (self.requests)
    served    \* what the rate limiter answered, request by request

vars == <<rows, vindex, nextId, now, pc, req, sess, res, ops, faults, requests, served>>

NoReq == [op |-> "-", id |-> 0, draft |-> NoMemory, patch |-> NoMemory, track |-> FALSE]
NoSess == [obj |-> NoMemory, orig |-> NoMemory]
NoRes == [status |-> "-", memory |-> NoMemory, kind |-> "-"]

\* An answer that carries no memory.
ReturnedNothing(m) == [status |-> "ok", memory |-> NoMemory, kind |-> "-"]

\* What a handler hands back.
Returned(m) == [status |-> "ok", memory |-> m, kind |-> "-"]
\* The select done with scalar_one(): no row is an exception.
NoResultFound == [status |-> "raised", memory |-> NoMemory, kind |-> "notfound"]

NotFound == [status |-> "notfound", memory |-> NoMemory, kind |-> "-"]
Raised(kind) == [status |-> "raised", memory |-> NoMemory, kind |-> kind]

Ids == 1 .. MaxOps

\* The addresses requests come from (request.client.host).
Clients == {"10.0.0.1", "10.0.0.2"}

\* RateLimitMiddleware.__init__: defaultdict(deque), no request seen yet.
NoTraffic ==
    /\ requests = [c \in Clients |-> << >>]
    /\ served = << >>

Init ==
    /\ rows = << >>
    /\ vindex = << >>
    /\ nextId = 0
    /\ now = 0
    /\ pc = [p \in Procs |-> "idle"]
    /\ req = [p \in Procs |-> NoReq]
    /\ sess = [p \in Procs |-> NoSess]
    /\ res = [p \in Procs |-> NoRes]
    /\ ops = 0
    /\ faults = 0
    /\ NoTraffic

CanStart(p) == pc[p] = "idle" /\ ops < MaxOps
CanFail == faults < MaxFaults

\* A handler finishes: the session is closed (get_db), the result stands.
Finish(p, r) ==
    /\ pc' = [pc EXCEPT ![p] = "done"]
    /\ sess' = [sess EXCEPT ![p] = NoSess]
    /\ res' = [res EXCEPT ![p] = r]
    /\ UNCHANGED <<requests, served>>

\* A handler moves on; the rate limiter, passed before the handler was
\* called, is not touched by any of its steps.
Goto(p, l) ==
    /\ pc' = [pc EXCEPT ![p] = l]
    /\ UNCHANGED <<requests, served>>

(* --------------------------- create_memory ---------------------------- *)

\* Memory(...); db.add(memory); await db.flush()
CreateFlush(p, d) ==
    /\ CanStart(p)
    /\ nextId < MaxOps
    /\ LET id == nextId + 1
           m == NewMemory(id, d, now + 1)
       IN /\ nextId' = id
          /\ now' = now + 1
          /\ rows' = Flush(rows, m)
          /\ req' = [req EXCEPT ![p] = [NoReq EXCEPT !.op = "create", !.id = id, !.draft = d]]
          /\ sess' = [sess EXCEPT ![p] = [obj |-> m, orig |-> NoMemory]]
    /\ Goto(p, "c_embed")
    /\ ops' = ops + 1
    /\ UNCHANGED <<vindex, res, faults>>

\* store_memory: embedding = await self.generate_embedding(content)
CreateEmbed(p) ==
    /\ pc[p] = "c_embed"
    /\ \/ /\ Goto(p, "c_upsert")
          /\ UNCHANGED <<rows, sess, res, faults>>
       \/ /\ CanFail
          /\ faults' = faults + 1
          /\ rows' = Rollback(rows, sess[p].obj)
          /\ Finish(p, Raised("embedding"))
    /\ UNCHANGED <<vindex, nextId, now, req, ops>>

\* store_memory: client.upsert(points=[point]); return memory_id
CreateUpsert(p) ==
    /\ pc[p] = "c_upsert"
    /\ \/ /\ vindex' = Upsert(vindex, Str(req[p].id),
                              Point(Str(req[p].id), req[p].draft.content,
                                    VectorMetadata(req[p].draft)))
          /\ Goto(p, "c_commit")
          /\ UNCHANGED <<rows, sess, res, faults>>
       \/ /\ CanFail
          /\ faults' = faults + 1
          /\ rows' = Rollback(rows, sess[p].obj)
          /\ Finish(p, Raised("index_write"))
          /\ UNCHANGED vindex
    /\ UNCHANGED <<nextId, now, req, ops>>

\* memory.vector_id = vector_id; await db.commit(); await db.refresh(memory)
CreateCommit(p) ==
    /\ pc[p] = "c_commit"
    /\ LET m == [sess[p].obj EXCEPT !.vector_id = StoreMemoryResult(Str(req[p].id))]
       IN \/ /\ rows' = InsertRow(rows, m)
             /\ Finish(p, Returned(m))
             /\ UNCHANGED faults
          \/ /\ CanFail
             /\ faults' = faults + 1
             /\ rows' = Rollback(rows, m)
             /\ Finish(p, Raised("commit"))
    /\ UNCHANGED <<vindex, nextId, now, req, ops>>

(* ----------------------------- get_memory ----------------------------- *)

\* select(Memory).where(Memory.id == memory_id); without tracking, or with
\* no row, the handler returns what it loaded.
GetSelect(p, id, track) ==
    /\ CanStart(p)
    /\ ops' = ops + 1
    /\ req' = [req EXCEPT ![p] = [NoReq EXCEPT !.op = "get", !.id = id, !.track = track]]
    /\ IF UpdateAccess(id \in DOMAIN rows, track)
       THEN \* memory.access_count += 1; memory.last_accessed = now()
            /\ sess' = [sess EXCEPT ![p] =
                          [obj |-> Touch(rows[id], now), orig |-> rows[id]]]
            /\ Goto(p, "g_commit")
            /\ UNCHANGED res
       ELSE /\ Finish(p, IF id \in DOMAIN rows THEN Returned(rows[id]) ELSE NotFound)
    /\ UNCHANGED <<rows, vindex, nextId, now, faults>>

\* db.add(memory); await db.commit(); await db.refresh(memory).  The UPDATE
\* writes the counter computed from the value loaded, the timestamp, and
\* updated_at (onupdate=func.now()).  An exception makes get_memory return
\* None.
GetCommit(p) ==
    /\ pc[p] = "g_commit"
    /\ LET id == req[p].id
           obj == [sess[p].obj EXCEPT !.updated_at = now + 1]
       IN \/ /\ id \in DOMAIN rows
             /\ rows' = UpdateRow(rows, id, obj, FlushColumns(sess[p].obj, sess[p].orig))
             /\ now' = now + 1
             /\ Finish(p, Returned(rows'[id]))
             /\ UNCHANGED faults
          \/ /\ id \notin DOMAIN rows      \* the UPDATE matches no row
             /\ rows' = Rollback(rows, obj)
             /\ Finish(p, [NotFound EXCEPT !.kind = "stale"])
             /\ UNCHANGED <<now, faults>>
          \/ /\ CanFail
             /\ faults' = faults + 1
             /\ rows' = Rollback(rows, obj)
             /\ Finish(p, [NotFound EXCEPT !.kind = "commit"])
             /\ UNCHANGED now
    /\ UNCHANGED <<vindex, nextId, req, ops>>

(* ---------------------------- update_memory --------------------------- *)

\* select; if not memory: return None; setattr for every field of the
\* patch; then the re-index when the patch carries content.
UpdSelect(p, id, patch) ==
    /\ CanStart(p)
    /\ ops' = ops + 1
    /\ req' = [req EXCEPT ![p] = [NoReq EXCEPT !.op = "update", !.id = id, !.patch = patch]]
    /\ IF id \in DOMAIN rows
       THEN /\ sess' = [sess EXCEPT ![p] =
                          [obj |-> ApplyPatch(rows[id], patch), orig |-> rows[id]]]
            /\ Goto(p, IF ReindexWanted(patch) THEN "u_vdelete" ELSE "u_commit")
            /\ UNCHANGED res
       ELSE Finish(p, NotFound)
    /\ UNCHANGED <<rows, vindex, nextId, now, faults>>

\* vector_service.update_memory: await self.delete_memory(memory_id)
UpdVDelete(p) ==
    /\ pc[p] = "u_vdelete"
    /\ \/ /\ vindex' = DeletePoint(vindex, Str(req[p].id))
          /\ Goto(p, "u_embed")
          /\ UNCHANGED <<rows, sess, res, faults>>
       \/ /\ CanFail
          /\ faults' = faults + 1
          /\ rows' = Rollback(rows, sess[p].obj)
          /\ Finish(p, Raised("index_delete"))
          /\ UNCHANGED vindex
    /\ UNCHANGED <<nextId, now, req, ops>>

\* vector_service.update_memory -> store_memory: generate_embedding
UpdEmbed(p) ==
    /\ pc[p] = "u_embed"
    /\ \/ /\ Goto(p, "u_upsert")
          /\ UNCHANGED <<rows, sess, res, faults>>
       \/ /\ CanFail
          /\ faults' = faults + 1
          /\ rows' = Rollback(rows, sess[p].obj)
          /\ Finish(p, Raised("embedding"))
    /\ UNCHANGED <<vindex, nextId, now, req, ops>>

\* vector_service.update_memory -> store_memory: client.upsert, with the
\* patch's content and the metadata of the patched object.
UpdUpsert(p) ==
    /\ pc[p] = "u_upsert"
    /\ \/ /\ vindex' = Upsert(vindex, Str(req[p].id),
                              Point(Str(req[p].id), req[p].patch.content,
                                    VectorMetadata(sess[p].obj)))
          /\ Goto(p, "u_commit")
          /\ UNCHANGED <<rows, sess, res, faults>>
       \/ /\ CanFail
          /\ faults' = faults + 1
          /\ rows' = Rollback(rows, sess[p].obj)
          /\ Finish(p, Raised("index_write"))
          /\ UNCHANGED vindex
    /\ UNCHANGED <<nextId, now, req, ops>>

\* await db.commit(); await db.refresh(memory)
UpdCommit(p) ==
    /\ pc[p] = "u_commit"
    /\ LET id == req[p].id
           obj == [sess[p].obj EXCEPT !.updated_at = now + 1]
       IN \/ /\ id \in DOMAIN rows
             /\ NotNull(obj)
             /\ rows' = UpdateRow(rows, id, obj, FlushColumns(sess[p].obj, sess[p].orig))
             /\ now' = now + 1
             /\ Finish(p, Returned(rows'[id]))
             /\ UNCHANGED faults
          \/ /\ id \in DOMAIN rows
             /\ ~NotNull(obj)              \* IntegrityError from the UPDATE
             /\ rows' = Rollback(rows, obj)
             /\ Finish(p, Raised("integrity"))
             /\ UNCHANGED <<now, faults>>
          \/ /\ id \notin DOMAIN rows      \* the row was deleted meanwhile
             /\ rows' = Rollback(rows, obj)
             /\ Finish(p, Raised("stale"))
             /\ UNCHANGED <<now, faults>>
          \/ /\ CanFail
             /\ faults' = faults + 1
             /\ rows' = Rollback(rows, obj)
             /\ Finish(p, Raised("commit"))
             /\ UNCHANGED now
    /\ UNCHANGED <<vindex, nextId, req, ops>>

(* ---------------------------- delete_memory --------------------------- *)

\* select; if not memory: return False
DelSelect(p, id) ==
    /\ CanStart(p)
    /\ ops' = ops + 1
    /\ req' = [req EXCEPT ![p] = [NoReq EXCEPT !.op = "delete", !.id = id]]
    /\ IF id \in DOMAIN rows
       THEN /\ sess' = [sess EXCEPT ![p] = [obj |-> rows[id], orig |-> rows[id]]]
            /\ Goto(p, "d_vdelete")
            /\ UNCHANGED res
       ELSE Finish(p, NotFound)
    /\ UNCHANGED <<rows, vindex, nextId, now, faults>>

\* await self.vector_service.delete_memory(str(memory.id))
DelVDelete(p) ==
    /\ pc[p] = "d_vdelete"
    /\ \/ /\ vindex' = DeletePoint(vindex, Str(req[p].id))
          /\ Goto(p, "d_commit")
          /\ UNCHANGED <<rows, sess, res, faults>>
       \/ /\ CanFail
          /\ faults' = faults + 1
          /\ rows' = Rollback(rows, sess[p].obj)
          /\ Finish(p, Raised("index_delete"))
          /\ UNCHANGED vindex
    /\ UNCHANGED <<nextId, now, req, ops>>

\* await db.delete(memory); await db.commit(); return True.  A DELETE that
\* matches no row (deleted meanwhile) is a warning, not an error.
DelCommit(p) ==
    /\ pc[p] = "d_commit"
    /\ \/ /\ rows' = DeleteRow(rows, req[p].id)
          /\ Finish(p, Returned(NoMemory))
          /\ UNCHANGED faults
       \/ /\ CanFail
          /\ faults' = faults + 1
          /\ rows' = Rollback(rows, sess[p].obj)
          /\ Finish(p, Raised("commit"))
    /\ UNCHANGED <<vindex, nextId, now, req, ops>>

(* ------------------------------ requests ------------------------------ *)

(* --------------------------- search_memories -------------------------- *)

\* MemorySearchRequest values.  Scores are in tenths (the default
\* min_similarity 0.7 is 7); tags, user_id and conversation_id are left at
\* their defaults.
Queries == {"B", "a"}
Limits == {1, 2}
Thresholds == {7}
Searches ==
    [query : Queries, context : {None, "work"}, tags : {<< >>},
     user_id : {None}, conversation_id : {None},
     limit : Limits, min_similarity : Thresholds,
     include_semantic : BOOLEAN, include_keyword : BOOLEAN]

\* The characters of the texts in use.
Chars(s) ==
    CASE s = "ab" -> <<"a", "b">>
      [] OTHER -> <<s>>

\* Case folding, as ILIKE compares.
Lower(ch) ==
    CASE ch = "A" -> "a"
      [] ch = "B" -> "b"
      [] OTHER -> ch

LowerChars(s) == [i \in 1 .. Len(Chars(s)) |-> Lower(Chars(s)[i])]

\* Memory.content.ilike(f"%{query}%"): the query occurs in the content,
\* letter case ignored.
ILike(content, query) ==
    LET c == LowerChars(content)
        q == LowerChars(query)
    IN \E i \in 0 .. (Len(c) - Len(q)) : SubSeq(c, i + 1, i + Len(q)) = q

\* Cosine similarity of two embeddings, in tenths: a function of the two
\* texts, symmetric in nothing the code relies on.
Cosine(u, v) ==
    LET q == u[2]
        c == v[2]
    IN CASE q = "B" /\ c = "b" -> 9
         [] q = "B" /\ c = "ab" -> 6
         [] q = "a" /\ c = "ab" -> 8
         [] q = "a" /\ c = "b" -> 7
         [] OTHER -> 1

Min(a, b) == IF a <= b THEN a ELSE b

\* s[:n]
Take(s, n) == SubSeq(s, 1, Min(n, Len(s)))

\* Every way a store may return the elements of S under an ORDER BY that
\* allows a before b when <<a, b>> is in before: elements the order does not
\* tell apart come in any order.
SortedSeqs(S, before) ==
    { s \in [1 .. Cardinality(S) -> S] :
        \A i, j \in 1 .. Cardinality(S) :
            i < j => (s[i] # s[j] /\ <<s[i], s[j]>> \in before) }

\* vector_filters: only the truthy request fields become conditions; tags
\* are not among them.
VectorFilters(request) ==
    { k \in {"context", "user_id", "conversation_id"} : Truthy(request[k]) }

\* formatted_results entry.
Hit(pt, score) == [memory_id |-> pt.payload.memory_id, similarity_score |-> score]

\* VectorService.search_similar: the points passing the filter with a score
\* of at least the threshold, best first, at most limit of them.
SearchSimilar(vi, request) ==
    LET qv == Embedding(request.query)
        hits == { Hit(vi[k], Cosine(qv, vi[k].vector)) :
                    k \in { k \in DOMAIN vi :
                             /\ \A f \in VectorFilters(request) :
                                   vi[k].payload[f] = request[f]
                             /\ Cosine(qv, vi[k].vector) >= request.min_similarity } }
        better == { ab \in hits \X hits :
                      ab[1].similarity_score >= ab[2].similarity_score }
    IN { Take(s, request.limit) : s \in SortedSeqs(hits, better) }

\* uuid.UUID(mem["memory_id"])
UUID(s) == CHOOSE i \in Ids : Str(i) = s

\* order_by(desc(Memory.importance_score), desc(Memory.created_at)) over
\* the rows in S.
DbOrder(S) ==
    { ab \in S \X S :
        \/ ab[1].importance_score > ab[2].importance_score
        \/ /\ ab[1].importance_score = ab[2].importance_score
           /\ ab[1].created_at >= ab[2].created_at }

\* memory.similarity_score = ...: the attribute set on a loaded row.
WithScore(m, score) ==
    [f \in DOMAIN m \cup {"similarity_score"} |->
        IF f = "similarity_score" THEN score ELSE m[f]]

\* The score looked up under the UUID, not its text: no key matches and
\* every row takes the default.
ScoreMapGetMisses(hits, key) == 0

\* score_map.get(str(memory.id), 0.0)
ScoreMapGet(hits, key) ==
    IF \E i \in DOMAIN hits : hits[i].memory_id = key
    THEN hits[CHOOSE i \in DOMAIN hits : hits[i].memory_id = key].similarity_score
    ELSE 0

\* select(Memory).where(Memory.id.in_(memory_ids)).order_by(...), each row
\* given the score of its hit.
ResolveHits(rs, hits) ==
    LET memory_ids == { UUID(hits[i].memory_id) : i \in DOMAIN hits }
        found == { rs[i] : i \in DOMAIN rs \cap memory_ids }
    IN { [i \in DOMAIN s |-> WithScore(s[i], ScoreMapGet(hits, Str(s[i].id)))] :
            s \in SortedSeqs(found, DbOrder(found)) }

\* The keyword query: content ILIKE, the equality filters that are truthy,
\* every requested tag contained, ordered, limited.
KeywordMatches(rs, request) ==
    { rs[i] : i \in { i \in DOMAIN rs :
        /\ ILike(rs[i].content, request.query)
        /\ \A f \in VectorFilters(request) : rs[i][f] = request[f]
        /\ \A t \in DOMAIN request.tags :
              \E u \in DOMAIN rs[i].tags : rs[i].tags[u] = request.tags[t] } }

KeywordQuery(rs, request) ==
    LET matches == KeywordMatches(rs, request)
    IN { Take(s, request.limit) : s \in SortedSeqs(matches, DbOrder(matches)) }

\* similarity_score of a keyword match (0.5).
KeywordScore == 5

\* The keyword block merged without its guard and without the id test.
KeywordLegAppendsAll(request, memories, keyword_memories) ==
    IF request.include_keyword
    THEN memories \o [i \in DOMAIN keyword_memories |->
                         WithScore(keyword_memories[i], KeywordScore)]
    ELSE memories

\* if include_keyword and (not memories or not include_semantic): the rows
\* of the keyword query whose id is not yet in memories are appended, with
\* the default score.
KeywordLegRuns(request, memories) ==
    request.include_keyword /\ (memories = << >> \/ ~request.include_semantic)

KeywordLeg(request, memories, keyword_memories) ==
    IF KeywordLegRuns(request, memories)
    THEN LET existing_ids == { memories[i].id : i \in DOMAIN memories }
             Fresh(m) == m.id \notin existing_ids
             added == SelectSeq(keyword_memories, Fresh)
         IN memories \o [i \in DOMAIN added |-> WithScore(added[i], KeywordScore)]
    ELSE memories

\* search_type after the keyword block.
KeywordType(request, memories, search_type) ==
    IF KeywordLegRuns(request, memories) /\ ~request.include_semantic
    THEN "keyword" ELSE search_type

\* The sort key (similarity_score, importance_score, created_at), compared
\* as Python compares tuples.
KeyLess(a, b) ==
    \/ a.similarity_score < b.similarity_score
    \/ /\ a.similarity_score = b.similarity_score
       /\ \/ a.importance_score < b.importance_score
          \/ /\ a.importance_score = b.importance_score
             /\ a.created_at < b.created_at

\* The sort without reverse=True: ascending.
InsertAscending(t, x) ==
    LET k == Cardinality({ i \in DOMAIN t : ~KeyLess(x, t[i]) })
    IN SubSeq(t, 1, k) \o <<x>> \o SubSeq(t, k + 1, Len(t))

\* memories.sort(key=..., reverse=True): descending, equal keys keep the
\* order they had.
InsertDesc(t, x) ==
    LET k == Cardinality({ i \in DOMAIN t : ~KeyLess(t[i], x) })
    IN SubSeq(t, 1, k) \o <<x>> \o SubSeq(t, k + 1, Len(t))

RECURSIVE SortDesc(_)
SortDesc(s) ==
    IF s = << >> THEN << >>
    ELSE InsertDesc(SortDesc(SubSeq(s, 1, Len(s) - 1)), s[Len(s)])

\* Memory.to_dict(): the thirteen columns, id as text; similarity_score is
\* not among them.
ToDict(m) ==
    [f \in DOMAIN m \ {"similarity_score"} |->
        IF f = "id" THEN Str(m.id) ELSE m[f]]

\* MemoryResponse(**d): id parsed back; similarity_score is Optional[float],
\* << >> when absent (its default None) and <<x>> when given.
MemoryResponse(d) ==
    [f \in DOMAIN d \cup {"similarity_score"} |->
        IF f = "id" THEN UUID(d.id)
        ELSE IF f = "similarity_score"
             THEN (IF f \in DOMAIN d THEN <<d[f]>> ELSE << >>)
        ELSE d[f]]

\* What search_memories returns and what the route makes of it; merged is
\* the list as it was before the final sort.
Found(merged, request, search_type) ==
    LET memories == Take(SortDesc(merged), request.limit)
    IN [status |-> "ok", memory |-> NoMemory, kind |-> "-",
        merged |-> merged,
        memories |-> memories,
        search_type |-> search_type,
        response |-> [memories |-> [i \in DOMAIN memories |->
                                       MemoryResponse(ToDict(memories[i]))],
                      total_count |-> Len(memories),
                      search_type |-> search_type]]

\* Every list search_memories can return for a request run against stores
\* that do not change meanwhile: one for each order in which the two stores
\* may hand back rows the ordering does not tell apart.
SearchOutcomes(rs, vi, request) ==
    LET hitLists == IF request.include_semantic
                    THEN SearchSimilar(vi, request) ELSE { << >> }
        Resolved(hits) == IF hits # << >> THEN ResolveHits(rs, hits) ELSE { << >> }
    IN UNION { UNION { { Found(KeywordLeg(request, memories, keyword_memories),
                               request, "-").memories :
                           keyword_memories \in KeywordQuery(rs, request) } :
                       memories \in Resolved(hits) } :
               hits \in hitLists }

SearchReq(request) ==
    [op |-> "search", id |-> NoReq.id, draft |-> NoReq.draft,
     patch |-> NoReq.patch, track |-> NoReq.track, search |-> request]

SearchLocals(hits, memories, search_type) ==
    [hits |-> hits, memories |-> memories, search_type |-> search_type]

\* memories = []; search_type = "hybrid"; with include_semantic the query is
\* embedded and the index searched.
SearchStart(p, request) ==
    /\ CanStart(p)
    /\ ops' = ops + 1
    /\ req' = [req EXCEPT ![p] = SearchReq(request)]
    /\ IF request.include_semantic
       THEN \/ \E hits \in SearchSimilar(vindex, request) :
                 /\ sess' = [sess EXCEPT ![p] = SearchLocals(hits, << >>, "hybrid")]
                 /\ Goto(p, IF hits # << >> THEN "s_resolve" ELSE "s_keyword")
                 /\ UNCHANGED <<res, faults>>
            \/ /\ CanFail
               /\ faults' = faults + 1
               /\ Finish(p, Raised("embedding"))
       ELSE /\ sess' = [sess EXCEPT ![p] = SearchLocals(<< >>, << >>, "hybrid")]
            /\ Goto(p, "s_keyword")
            /\ UNCHANGED <<res, faults>>
    /\ UNCHANGED <<rows, vindex, nextId, now>>

\* if similar_memories: the rows of the hits are loaded and scored;
\* search_type = "semantic"
SearchResolve(p) ==
    /\ pc[p] = "s_resolve"
    /\ \E db_memories \in ResolveHits(rows, sess[p].hits) :
          sess' = [sess EXCEPT ![p] =
                      SearchLocals(sess[p].hits, db_memories, "semantic")]
    /\ Goto(p, "s_keyword")
    /\ UNCHANGED <<rows, vindex, nextId, now, req, res, ops, faults>>

\* The keyword block, the sort, the truncation and the route's response.
SearchKeyword(p) ==
    /\ pc[p] = "s_keyword"
    /\ LET request == req[p].search
           memories == sess[p].memories
       IN \E keyword_memories \in KeywordQuery(rows, request) :
             Finish(p, Found(KeywordLeg(request, memories, keyword_memories),
                             request,
                             KeywordType(request, memories, sess[p].search_type)))
    /\ UNCHANGED <<rows, vindex, nextId, now, req, ops, faults>>

SearchStep(p) ==
    \/ \E request \in Searches : SearchStart(p, request)
    \/ SearchResolve(p)
    \/ SearchKeyword(p)

(* ----------------- get_recent_memories, get_memory_stats -------------- *)

\* The arguments of the recent route.
RecentRequests == [limit : Limits, user_id : {None, "u1"}, context : {None, "work"}]

\* if user_id: ... if context: ... -- the filters that are truthy.
RecentFilters(request) == { k \in {"user_id", "context"} : Truthy(request[k]) }

RecentMatches(rs, request) ==
    { rs[i] : i \in { i \in DOMAIN rs :
                        \A f \in RecentFilters(request) : rs[i][f] = request[f] } }

\* order_by(Memory.created_at), oldest first.
RecentOrderOldest(S) == { ab \in S \X S : ab[1].created_at <= ab[2].created_at }

\* order_by(desc(Memory.created_at)) over the rows in S.
RecentOrder(S) == { ab \in S \X S : ab[1].created_at >= ab[2].created_at }

\* select(Memory).where(...).order_by(desc(created_at)).limit(limit)
RecentQuery(rs, request) ==
    LET matches == RecentMatches(rs, request)
    IN { Take(s, request.limit) : s \in SortedSeqs(matches, RecentOrder(matches)) }

\* What get_recent_memories returns and the route's response.
RecentFound(memories) ==
    [status |-> "ok", memory |-> NoMemory, kind |-> "-",
     memories |-> memories,
     response |-> [i \in DOMAIN memories |-> MemoryResponse(ToDict(memories[i]))]]

RecentReq(request) ==
    [op |-> "recent", id |-> NoReq.id, draft |-> NoReq.draft,
     patch |-> NoReq.patch, track |-> NoReq.track, recent |-> request]

\* get_recent_memories: one query.
GetRecent(p, request) ==
    /\ CanStart(p)
    /\ ops' = ops + 1
    /\ req' = [req EXCEPT ![p] = RecentReq(request)]
    /\ \E memories \in RecentQuery(rows, request) :
          Finish(p, RecentFound(memories))
    /\ UNCHANGED <<rows, vindex, nextId, now, faults>>

\* context or "uncategorized"
ContextKey(c) == IF Truthy(c) THEN c ELSE "uncategorized"

\* select(Memory.context, func.count(Memory.id)).group_by(Memory.context),
\* collected into a dict: a key produced by two groups keeps one of them.
MemoriesByContext(rs) ==
    LET groups == { rs[i].context : i \in DOMAIN rs }
        Count(c) == Cardinality({ i \in DOMAIN rs : rs[i].context = c })
        keys == { ContextKey(c) : c \in groups }
    IN { d \in [keys -> 0 .. Cardinality(DOMAIN rs)] :
            \A k \in keys : \E c \in groups : ContextKey(c) = k /\ d[k] = Count(c) }

RECURSIVE SumAccess(_, _)
SumAccess(rs, S) ==
    IF S = {} THEN 0
    ELSE LET i == CHOOSE i \in S : TRUE
         IN rs[i].access_count + SumAccess(rs, S \ {i})

\* select(func.avg(Memory.access_count)): kept as the sum and the number of
\* rows it is taken over.
AvgAccessCount(rs) == [sum |-> SumAccess(rs, DOMAIN rs), rows |-> Cardinality(DOMAIN rs)]

\* select(func.count(func.distinct(Memory.user_id))).where(user_id is not None)
TotalUsers(rs) == Cardinality({ rs[i].user_id : i \in DOMAIN rs } \ {None})

\* The dict get_memory_stats returns (memories_by_day left out: every row
\* of the model is created on one day).
StatsFound(total_memories, memories_by_context, rs) ==
    [status |-> "ok", memory |-> NoMemory, kind |-> "-",
     stats |-> [total_memories |-> total_memories,
                memories_by_context |-> memories_by_context,
                avg_access_count |-> AvgAccessCount(rs),
                total_users |-> TotalUsers(rs)]]

\* select(func.count(Memory.id)): the first query of get_memory_stats.
StatsCount(p) ==
    /\ CanStart(p)
    /\ ops' = ops + 1
    /\ req' = [req EXCEPT ![p] = [NoReq EXCEPT !.op = "stats"]]
    /\ sess' = [sess EXCEPT ![p] = [total_memories |-> Cardinality(DOMAIN rows)]]
    /\ Goto(p, "t_groups")
    /\ UNCHANGED <<rows, vindex, nextId, now, res, faults>>

\* The grouped and aggregate queries, each reading what is committed by
\* then, and the return.
StatsGroups(p) ==
    /\ pc[p] = "t_groups"
    /\ \E memories_by_context \in MemoriesByContext(rows) :
          Finish(p, StatsFound(sess[p].total_memories, memories_by_context, rows))
    /\ UNCHANGED <<rows, vindex, nextId, now, req, ops, faults>>

ReadStep(p) ==
    \/ \E request \in RecentRequests : GetRecent(p, request)
    \/ StatsCount(p)
    \/ StatsGroups(p)

(* ------------------------- request validation ------------------------- *)

\* content: max_length=10000.
MaxLength == 10000

\* "x" * n
RECURSIVE Repeat(_, _)
Repeat(s, n) ==
    IF n = 0 THEN ""
    ELSE IF n % 2 = 1 THEN s \o Repeat(s, n - 1)
    ELSE LET half == Repeat(s, n \div 2) IN half \o half

\* long_content = "x" * 15000
LongContent == Repeat("x", 15000)

\* JSON bodies of POST /memories: a mapping of the fields the client sent.
CreateBodies ==
    { [context |-> "work", user_id |-> "u1"],
      [content |-> "", context |-> "work", user_id |-> "u1"],
      [content |-> "  "],
      [content |-> LongContent, context |-> "work", user_id |-> "u1"],
      [content |-> "b", importance_score |-> 11],
      [content |-> "b", importance_score |-> 0],
      [content |-> " b ", user_id |-> "u1"],
      [content |-> "ab", importance_score |-> NullInt] }

\* JSON bodies of PUT /memories/{id}.
UpdateBodies ==
    { [importance_score |-> 11],
      [importance_score |-> 0],
      [content |-> ""],
      [content |-> LongContent],
      [importance_score |-> NullInt],
      [content |-> None],
      [content |-> "  "],
      [importance_score |-> 5, user_id |-> "u2", vector_id |-> "v9"] }

\* A field of the body, or the field's default when the client left it out.
FieldOr(body, f, default) == IF f \in DOMAIN body THEN body[f] ELSE default

\* v.strip() on the contents above.
Strip(v) ==
    CASE v = "  " -> ""
      [] v = " b " -> "b"
      [] OTHER -> v

\* The range check that accepts every integer.
WithinRangeUnchecked(v) == TRUE

\* Optional[int] = Field(..., ge=1, le=10): None passes, an integer must
\* lie in the range.
WithinRange(v) == v = NullInt \/ (v >= 1 /\ v <= 10)

\* str = Field(..., min_length=1, max_length=10000)
WithinLength(v) == Len(v) >= 1 /\ Len(v) <= MaxLength

\* MemoryCreate accepts the body: content is required and a string within
\* the length bounds, validate_content refuses what strips to nothing, and
\* importance_score is within its range.
MemoryCreateValid(body) ==
    /\ "content" \in DOMAIN body
    /\ body.content # None
    /\ WithinLength(body.content)
    /\ Truthy(body.content) /\ Truthy(Strip(body.content))
    /\ WithinRange(FieldOr(body, "importance_score", 1))

\* The MemoryCreate built from an accepted body: content stripped, the
\* fields left out at their defaults.
MemoryCreate(body) ==
    [content |-> Strip(body.content),
     context |-> FieldOr(body, "context", None),
     tags |-> FieldOr(body, "tags", <<>>),
     metadata |-> FieldOr(body, "metadata", "{}"),
     user_id |-> FieldOr(body, "user_id", None),
     conversation_id |-> FieldOr(body, "conversation_id", None),
     importance_score |-> FieldOr(body, "importance_score", 1)]

\* The fields of MemoryUpdate; any other key of the body is ignored.
UpdateFields == {"content", "context", "tags", "metadata", "importance_score"}

\* MemoryUpdate accepts the body: every field is Optional, so None passes;
\* a string content is within the length bounds and an integer
\* importance_score within its range.
MemoryUpdateValid(body) ==
    /\ ("content" \in DOMAIN body /\ body.content # None)
          => WithinLength(body.content)
    /\ "importance_score" \in DOMAIN body => WithinRange(body.importance_score)

\* memory_update.dict(exclude_unset=True) of an accepted body.
MemoryUpdate(body) == [f \in DOMAIN body \cap UpdateFields |-> body[f]]

\* 422 Unprocessable Entity: the answer of the framework to a body the
\* request model refuses; the route function is not called.
Rejected == [status |-> "invalid", memory |-> NoMemory, kind |-> "422"]

Reject(p, op) ==
    /\ CanStart(p)
    /\ ops' = ops + 1
    /\ req' = [req EXCEPT ![p] = [NoReq EXCEPT !.op = op]]
    /\ Finish(p, Rejected)
    /\ UNCHANGED <<rows, vindex, nextId, now, faults>>

\* POST /memories: the body is parsed into MemoryCreate, then
\* memory_service.create_memory(db, memory).
CreateRoute(p, body) ==
    IF MemoryCreateValid(body)
    THEN CreateFlush(p, MemoryCreate(body))
    ELSE Reject(p, "create")

\* PUT /memories/{memory_id}: the body is parsed into MemoryUpdate, then
\* memory_service.update_memory(db, memory_id, memory_update).
UpdateRoute(p, id, body) ==
    IF MemoryUpdateValid(body)
    THEN UpdSelect(p, id, MemoryUpdate(body))
    ELSE Reject(p, "update")

RouteStep(p) ==
    \/ \E body \in CreateBodies : CreateRoute(p, body)
    \/ \E id \in Ids, body \in UpdateBodies : UpdateRoute(p, id, body)

(* --------------------------- batch creation --------------------------- *)

\* Items in one batch (the route refuses more than 100).
MaxBatch == 2

\* POST /memories/batch bodies: lists of validated MemoryCreate items.
Batches == UNION { [1 .. n -> Drafts] : n \in 1 .. MaxBatch }

BatchReq(items) ==
    [op |-> "batch", id |-> 0, draft |-> NoMemory, patch |-> NoMemory,
     track |-> FALSE, items |-> items]

\* The locals of the route and the session they share: the items still to
\* do, created_memories (each object with its state in the session), the
\* ids the flushes drew, how each item ended, and the pending object.
BatchLocals(todo, created_memories, ids, outcomes, obj) ==
    [todo |-> todo, created_memories |-> created_memories, ids |-> ids,
     outcomes |-> outcomes, obj |-> obj]

\* created_memories.append(memory): the object as commit and refresh left it.
Loaded(m) == [memory |-> m, expired |-> FALSE]

\* db.rollback() expires every object that stays in the session, whatever
\* expire_on_commit says: its attributes are dropped, to be loaded again on
\* the next access.
ExpireAll(created_memories) ==
    [i \in DOMAIN created_memories |->
        [created_memories[i] EXCEPT !.expired = TRUE]]

\* memory.to_dict() reads the columns: on an expired object that is a load
\* outside any awaited call, which the async session refuses.
CanRead(created_memories) ==
    \A i \in DOMAIN created_memories : ~created_memories[i].expired

\* What the batch route answers: the list of responses, or the error raised
\* while building it.
BatchFound(s) ==
    [status |-> "ok", memory |-> NoMemory, kind |-> "batch",
     ids |-> s.ids, outcomes |-> s.outcomes,
     response |-> [i \in DOMAIN s.created_memories |->
                     MemoryResponse(ToDict(s.created_memories[i].memory))]]

BatchRaised(s) ==
    [status |-> "raised", memory |-> NoMemory, kind |-> "response",
     ids |-> s.ids, outcomes |-> s.outcomes, response |-> << >>]

\* for memory_data in memories: (the batch is accepted, the loop begins).
\* Ids are drawn while fewer than MaxOps were drawn, so a batch starts when
\* that leaves an id for each of its items.
BatchStart(p, items) ==
    /\ CanStart(p)
    /\ nextId + Len(items) <= MaxOps
    /\ ops' = ops + 1
    /\ req' = [req EXCEPT ![p] = BatchReq(items)]
    /\ sess' = [sess EXCEPT ![p] = BatchLocals(items, << >>, << >>, << >>, NoMemory)]
    /\ Goto(p, "b_flush")
    /\ UNCHANGED <<rows, vindex, nextId, now, res, faults>>

\* The end of one item: appended to created_memories, or logged and skipped
\* (except ...: continue); then the next item, or the answer.
ItemDone(p, outcome, created_memories) ==
    LET s == sess[p]
        rest == Tail(s.todo)
    IN /\ sess' = [sess EXCEPT ![p] =
                     BatchLocals(rest, created_memories, s.ids,
                                 Append(s.outcomes, outcome), NoMemory)]
       /\ Goto(p, IF rest = << >> THEN "b_respond" ELSE "b_flush")

\* create_memory of the next item: Memory(...); db.add(memory); db.flush()
BatchFlush(p) ==
    /\ pc[p] = "b_flush"
    /\ nextId < MaxOps
    /\ LET s == sess[p]
           id == nextId + 1
           m == NewMemory(id, Head(s.todo), now + 1)
       IN /\ nextId' = id
          /\ now' = now + 1
          /\ rows' = Flush(rows, m)
          /\ sess' = [sess EXCEPT ![p] =
                        BatchLocals(s.todo, s.created_memories,
                                    Append(s.ids, id), s.outcomes, m)]
    /\ Goto(p, "b_embed")
    /\ UNCHANGED <<vindex, req, res, ops, faults>>

\* store_memory: generate_embedding; on failure create_memory rolls back
\* and raises, and the route goes on with the next item.
BatchEmbed(p) ==
    /\ pc[p] = "b_embed"
    /\ \/ /\ Goto(p, "b_upsert")
          /\ UNCHANGED <<rows, sess, faults>>
       \/ /\ CanFail
          /\ faults' = faults + 1
          /\ rows' = Rollback(rows, sess[p].obj)
          /\ ItemDone(p, "embedding", ExpireAll(sess[p].created_memories))
    /\ UNCHANGED <<vindex, nextId, now, req, res, ops>>

\* store_memory: client.upsert
BatchUpsert(p) ==
    /\ pc[p] = "b_upsert"
    /\ LET s == sess[p]
           memory_data == Head(s.todo)
       IN \/ /\ vindex' = Upsert(vindex, Str(s.obj.id),
                                 Point(Str(s.obj.id), memory_data.content,
                                       VectorMetadata(memory_data)))
             /\ Goto(p, "b_commit")
             /\ UNCHANGED <<rows, sess, faults>>
          \/ /\ CanFail
             /\ faults' = faults + 1
             /\ rows' = Rollback(rows, s.obj)
             /\ ItemDone(p, "index_write", ExpireAll(s.created_memories))
             /\ UNCHANGED vindex
    /\ UNCHANGED <<nextId, now, req, res, ops>>

\* memory.vector_id = vector_id; db.commit(); db.refresh(memory);
\* created_memories.append(memory)
BatchCommit(p) ==
    /\ pc[p] = "b_commit"
    /\ LET s == sess[p]
           m == [s.obj EXCEPT !.vector_id = StoreMemoryResult(Str(s.obj.id))]
       IN \/ /\ rows' = InsertRow(rows, m)
             /\ ItemDone(p, "ok", Append(s.created_memories, Loaded(m)))
             /\ UNCHANGED faults
          \/ /\ CanFail
             /\ faults' = faults + 1
             /\ rows' = Rollback(rows, m)
             /\ ItemDone(p, "commit", ExpireAll(s.created_memories))
    /\ UNCHANGED <<vindex, nextId, now, req, res, ops>>

\* return [MemoryResponse(**memory.to_dict()) for memory in created_memories]
BatchRespond(p) ==
    /\ pc[p] = "b_respond"
    /\ Finish(p, IF CanRead(sess[p].created_memories)
                 THEN BatchFound(sess[p])
                 ELSE BatchRaised(sess[p]))
    /\ UNCHANGED <<rows, vindex, nextId, now, req, ops, faults>>

BatchStep(p) ==
    \/ \E items \in Batches : BatchStart(p, items)
    \/ BatchFlush(p)
    \/ BatchEmbed(p)
    \/ BatchUpsert(p)
    \/ BatchCommit(p)
    \/ BatchRespond(p)

\* The client has its answer; the worker takes the next request.
Return(p) ==
    /\ pc[p] = "done"
    /\ pc' = [pc EXCEPT ![p] = "idle"]
    /\ req' = [req EXCEPT ![p] = NoReq]
    /\ res' = [res EXCEPT ![p] = NoRes]
    /\ UNCHANGED <<rows, vindex, nextId, now, sess, ops, faults, requests, served>>

Step(p) ==
    \/ \E d \in Drafts : CreateFlush(p, d)
    \/ CreateEmbed(p)
    \/ CreateUpsert(p)
    \/ CreateCommit(p)
    \/ \E id \in Ids, track \in BOOLEAN : GetSelect(p, id, track)
    \/ GetCommit(p)
    \/ \E id \in Ids, patch \in Patches : UpdSelect(p, id, patch)
    \/ UpdVDelete(p)
    \/ UpdEmbed(p)
    \/ UpdUpsert(p)
    \/ UpdCommit(p)
    \/ \E id \in Ids : DelSelect(p, id)
    \/ DelVDelete(p)
    \/ DelCommit(p)
    \/ Return(p)

\* Requests of different clients interleave at every awaited call.
Next == \E p \in Procs : Step(p)

Spec == Init /\ [][Next]_vars

\* One request at a time: a request starts when no other is in flight.
Quiescent == \A p \in Procs : pc[p] \in {"idle", "done"}

SeqNext == \E p \in Procs : (\A q \in Procs \ {p} : pc[q] = "idle") /\ Step(p)

SeqSpec == Init /\ [][SeqNext]_vars

\* Requests served one at a time, the answers staying with their clients: a
\* request is taken up when no other is in flight.
SerialNext ==
    \E p \in Procs :
        /\ \A q \in Procs \ {p} : pc[q] \in {"idle", "done"}
        /\ Step(p)

SerialSpec == Init /\ [][SerialNext]_vars

\* The service taken up when it already holds one memory, created from any
\* draft at time 1 and answered: the state a first create_memory leaves.
StoredInit ==
    /\ \E d \in Drafts :
          LET m == [NewMemory(1, d, 1) EXCEPT !.vector_id = StoreMemoryResult(Str(1))]
          IN /\ rows = InsertRow(<< >>, m)
             /\ vindex = Upsert(<< >>, Str(1), Point(Str(1), d.content, VectorMetadata(d)))
    /\ nextId = 1
    /\ now = 1
    /\ pc = [p \in Procs |-> "idle"]
    /\ req = [p \in Procs |-> NoReq]
    /\ sess = [p \in Procs |-> NoSess]
    /\ res = [p \in Procs |-> NoRes]
    /\ ops = 0
    /\ faults = 0
    /\ NoTraffic

StoredSpec == StoredInit /\ [][Next]_vars

\* Stores the statistics are taken over: up to MaxStored memories, created
\* one after the other and answered, the context of each any of those a
\* client may give (none, "work", or the word "uncategorized" itself).
MaxStored == 2

StatsContexts == {None, "work", "uncategorized"}

StatsStores ==
    UNION { [1 .. n -> StatsContexts] : n \in 0 .. MaxStored }

StoredMemory(id, d) ==
    [NewMemory(id, d, id) EXCEPT !.vector_id = StoreMemoryResult(Str(id))]

StatsInit ==
    /\ \E contexts \in StatsStores :
          /\ rows = [i \in DOMAIN contexts |->
                       StoredMemory(i, Draft("b", contexts[i], << >>, 1))]
          /\ vindex = [k \in { Str(i) : i \in DOMAIN contexts } |->
                         LET d == Draft("b", contexts[UUID(k)], << >>, 1)
                         IN Point(k, d.content, VectorMetadata(d))]
          /\ nextId = Len(contexts)
          /\ now = Len(contexts)
    /\ pc = [p \in Procs |-> "idle"]
    /\ req = [p \in Procs |-> NoReq]
    /\ sess = [p \in Procs |-> NoSess]
    /\ res = [p \in Procs |-> NoRes]
    /\ ops = 0
    /\ faults = 0
    /\ NoTraffic

\* GetStats requests over such a store.
StatsNext == \E p \in Procs : StatsCount(p) \/ StatsGroups(p) \/ Return(p)

StatsSpec == StatsInit /\ [][StatsNext]_vars

\* The service behind its routes: bodies are validated by the request models
\* before the route function runs.
ApiNext == \E p \in Procs : Step(p) \/ RouteStep(p)

ApiSpec == Init /\ [][ApiNext]_vars

\* The same requests taken one at a time.
SeqApiNext ==
    \E p \in Procs :
        /\ \A q \in Procs \ {p} : pc[q] = "idle"
        /\ Step(p) \/ RouteStep(p)

SeqApiSpec == Init /\ [][SeqApiNext]_vars

\* Single requests and batches, one request at a time.
BatchNext ==
    \E p \in Procs :
        /\ \A q \in Procs \ {p} : pc[q] = "idle"
        /\ Step(p) \/ BatchStep(p)

BatchSpec == Init /\ [][BatchNext]_vars

\* The requests of Spec together with searches, recent lists and statistics.
SearchNext == \E p \in Procs : Step(p) \/ SearchStep(p) \/ ReadStep(p)

SearchSpec == Init /\ [][SearchNext]_vars

\* The same, one request at a time.
SeqSearchNext ==
    \E p \in Procs :
        /\ \A q \in Procs \ {p} : pc[q] = "idle"
        /\ (Step(p) \/ SearchStep(p) \/ ReadStep(p))

SeqSearchSpec == Init /\ [][SeqSearchNext]_vars

(* ------------------- middleware/rate_limiting.py ---------------------- *)

\* calls_per_minute: the limit of the limiter (the application mounts it
\* with 100; the model takes a limit small enough to be reached).
CallsPerMinute == 2

\* minute_ago = current_time - 60
Window == 60

\* The paths requested: the health check and a route of the API.
Paths == {"/health", "/api/v1/memories"}

\* Between two requests the clock (time.time(), in seconds) stands still or
\* moves on to a later one of these instants; MaxRequests requests arrive
\* in all.
Instants == {1, 60, 61}
MaxRequests == 4

\* Every entry at the head of the window is dropped.
RECURSIVE CleanAll(_, _)
CleanAll(client_requests, minute_ago) ==
    IF client_requests # << >>
    THEN CleanAll(Tail(client_requests), minute_ago)
    ELSE client_requests

\* No entry is dropped.
CleanNone(client_requests, minute_ago) == client_requests

\* while client_requests and client_requests[0] < minute_ago:
\*     client_requests.popleft()
RECURSIVE CleanOld(_, _)
CleanOld(client_requests, minute_ago) ==
    IF client_requests # << >> /\ Head(client_requests) < minute_ago
    THEN CleanOld(Tail(client_requests), minute_ago)
    ELSE client_requests

\* What became of a request: handed to call_next, or answered with 429.
Answer(c, path, status) ==
    [client |-> c, path |-> path, time |-> now, status |-> status]

\* RateLimitMiddleware.dispatch, up to the point where it hands the request
\* on or answers it itself (no await before that point: one step).
Dispatch(c, path) ==
    /\ Len(served) < MaxRequests
    /\ IF path = "/health"
       THEN /\ served' = Append(served, Answer(c, path, "call_next"))
            /\ UNCHANGED requests
       ELSE LET current_time == now
                minute_ago == current_time - Window
                client_requests == CleanOld(requests[c], minute_ago)
            IN IF Len(client_requests) >= CallsPerMinute
               THEN /\ requests' = [requests EXCEPT ![c] = client_requests]
                    /\ served' = Append(served, Answer(c, path, "429"))
               ELSE /\ requests' = [requests EXCEPT ![c] =
                                       Append(client_requests, current_time)]
                    /\ served' = Append(served, Answer(c, path, "call_next"))
    /\ UNCHANGED <<rows, vindex, nextId, now, pc, req, sess, res, ops, faults>>

\* Time passes.
Tick(t) ==
    /\ t > now
    /\ now' = t
    /\ UNCHANGED <<rows, vindex, nextId, pc, req, sess, res, ops, faults, requests, served>>

\* The limiter alone, in front of the handlers: requests of any client for
\* any path at any time.
RateNext ==
    \/ \E c \in Clients, path \in Paths : Dispatch(c, path)
    \/ \E t \in Instants : Tick(t)

RateSpec == Init /\ [][RateNext]_vars

(* --------------------- middleware/rate_limit.py ----------------------- *)

\* self.window_size = 60
WindowSize == 60

\* is_rate_limited of the limiter in rate_limit.py (which the application
\* does not mount): the list of the client's calls as it leaves it, and
\* whether the call is refused.
IsRateLimited(calls, t) ==
    LET kept == SelectSeq(calls, LAMBDA call_time : t - call_time < WindowSize)
    IN IF Len(kept) >= CallsPerMinute
       THEN [limited |-> TRUE, calls |-> kept]
       ELSE [limited |-> FALSE, calls |-> Append(kept, t)]

\* self.calls[client_ip] of that limiter once it has been through the
\* requests of the log s (those for /health pass it by).
RECURSIVE Calls(_, _)
Calls(s, c) ==
    IF s = << >>
    THEN << >>
    ELSE LET a == s[Len(s)]
             before == Calls(SubSeq(s, 1, Len(s) - 1), c)
         IN IF a.client = c /\ a.path # "/health"
            THEN IsRateLimited(before, a.time).calls
            ELSE before

(* ------------------------------ properties ---------------------------- *)

InCreate(p) == req[p].op = "create" /\ pc[p] \in {"c_embed", "c_upsert", "c_commit"}
InUpdate(p) == req[p].op = "update" /\ pc[p] \in {"u_vdelete", "u_embed", "u_upsert", "u_commit"}
InDelete(p) == req[p].op = "delete" /\ pc[p] \in {"d_vdelete", "d_commit"}

\* The handler of p ends in this step, with the given status.
Ends(p, status) == pc[p] \notin {"idle", "done"} /\ pc'[p] = "done" /\ res'[p].status = status

Done(p, op, status) == pc[p] = "done" /\ req[p].op = op /\ res[p].status = status

\* The attributes of a point's payload are those of m.
PayloadMatches(pt, m) ==
    /\ pt.payload.context = m.context
    /\ pt.payload.user_id = m.user_id
    /\ pt.payload.conversation_id = m.conversation_id
    /\ pt.payload.importance_score = m.importance_score
    /\ pt.payload.tags = m.tags

\* C1: a create that returns hands back a Memory whose vector_id is set and
\* is the string form of its id, and at that moment the vector index holds a
\* point under that key with the submitted content and the draft's context,
\* user_id, conversation_id, importance_score and tags.
C1_CreateWritesBothStores ==
    [][\A p \in Procs :
         (InCreate(p) /\ Ends(p, "ok")) =>
            LET m == res'[p].memory
                d == req[p].draft
            IN /\ m.vector_id # None
               /\ m.vector_id = Str(m.id)
               /\ m.id \in DOMAIN rows' /\ rows'[m.id] = m
               /\ Str(m.id) \in DOMAIN vindex'
               /\ vindex'[Str(m.id)].payload.content = d.content
               /\ vindex'[Str(m.id)].payload.memory_id = Str(m.id)
               /\ PayloadMatches(vindex'[Str(m.id)], d)]_vars

C1_Witness ==
    \E p \in Procs :
        /\ Done(p, "create", "ok")
        /\ req[p].draft.context # None
        /\ req[p].draft.tags # <<>>
        /\ Str(req[p].id) \in DOMAIN vindex

\* C2: a create that fails (embedding, index write or commit) changes no
\* committed row and leaves no row for its draft, then and ever after.
C2_FailedCreateLeavesNoRow ==
    /\ [](\A p \in Procs : Done(p, "create", "raised") => req[p].id \notin DOMAIN rows)
    /\ [][\A p \in Procs :
            (InCreate(p) /\ Ends(p, "raised")) =>
                (rows' = rows /\ req[p].id \notin DOMAIN rows')]_vars

C2_Witness ==
    \E p \in Procs :
        /\ Done(p, "create", "raised")
        /\ res[p].kind = "commit"
        /\ rows # << >>

\* C3: when the commit of a create fails after the upsert succeeded, the
\* point just written is deleted again before the failure is surfaced, so
\* no point for the new id remains after the failed create.
C3_CommitFailureCleansIndex ==
    \A p \in Procs :
        (Done(p, "create", "raised") /\ res[p].kind = "commit")
            => Str(req[p].id) \notin DOMAIN vindex

\* C4: once a delete of id has returned true, the vector index holds no
\* point for id, whatever other requests on id are in flight.
C4_NoPointAfterDelete ==
    \A p \in Procs :
        Done(p, "delete", "ok") => Str(req[p].id) \notin DOMAIN vindex

\* C5: a delete removes the point before the row; at no step of a delete,
\* failing or not, does the index hold a point for id while the row of id
\* is gone.
C5_DeleteNeverOrphansPoint ==
    [][\A p \in Procs :
         (InDelete(p) /\ pc'[p] # pc[p]) =>
            /\ ~(Str(req[p].id) \in DOMAIN vindex' /\ req[p].id \notin DOMAIN rows')
            /\ (rows' # rows => Str(req[p].id) \notin DOMAIN vindex)]_vars

\* C6: every tracked read that returns the record has added exactly one to
\* the committed access_count and returns the count it committed, so N
\* concurrent reads end at the earlier value plus N and observe N distinct
\* counts.
C6_NoLostAccessUpdate ==
    [][\A p \in Procs :
         (req[p].op = "get" /\ pc[p] = "g_commit" /\ Ends(p, "ok")) =>
            /\ rows'[req[p].id].access_count = rows[req[p].id].access_count + 1
            /\ res'[p].memory.access_count = rows'[req[p].id].access_count]_vars

\* C7: in every reachable state, also while an update is in progress and
\* after a failed update or delete, each row with a vector_id has a point
\* under that key in the vector index.
C7_VectorIdResolves ==
    \A id \in DOMAIN rows :
        rows[id].vector_id # None => rows[id].vector_id \in DOMAIN vindex

\* The row of id and its point agree on content and on the payload
\* attributes.
PayloadUpToDate(id) ==
    /\ Str(id) \in DOMAIN vindex
    /\ vindex[Str(id)].payload.content = rows[id].content
    /\ PayloadMatches(vindex[Str(id)], rows[id])

C9_FailedReindexCommitsNothing ==
    [][\A p \in Procs :
         (\/ pc[p] = "idle" /\ req'[p].op = "update"
          \/ InUpdate(p) /\ pc[p] # "u_commit" /\ pc'[p] # pc[p])
            => rows' = rows]_vars

C9_Witness ==
    \E p \in Procs :
        /\ Done(p, "update", "raised")
        /\ res[p].kind \in {"embedding", "index_write"}
        /\ req[p].id \in DOMAIN rows
        /\ rows[req[p].id].content # req[p].patch.content

\* C10: an update whose patch leaves content unchanged (content absent, or
\* present with the value the row has) calls neither the embedding generator
\* nor the vector index: none of its steps is a step of the re-index and
\* none changes the index.
C10_UnchangedContentSkipsIndex ==
    [][\A p \in Procs :
         (/\ InUpdate(p) /\ pc'[p] # pc[p]
          /\ \/ "content" \notin DOMAIN req[p].patch
             \/ req[p].patch.content = sess[p].orig.content)
            => (pc[p] = "u_commit" /\ vindex' = vindex)]_vars

(* ------------------------------- C11 ---------------------------------- *)

\* C11: a successful update_memory writes the patch values into the fields
\* present in the patch and leaves every other field of the record as it was
\* (id, created_at, access_count, last_accessed, vector_id, user_id,
\* conversation_id and the patchable fields absent from the patch; updated_at
\* is the one column the store refreshes); no other record changes, and the
\* record handed back is the stored one.
C11_UpdateChangesOnlyPatchedFields ==
    [][\A p \in Procs :
          (InUpdate(p) /\ pc[p] = "u_commit" /\ Ends(p, "ok")) =>
              LET id == req[p].id
                  patch == req[p].patch
              IN /\ DOMAIN rows' = DOMAIN rows
                 /\ \A f \in DOMAIN patch : rows'[id][f] = patch[f]
                 /\ \A f \in DOMAIN rows[id] \ (DOMAIN patch \cup {"updated_at"}) :
                        rows'[id][f] = rows[id][f]
                 /\ \A i \in DOMAIN rows \ {id} : rows'[i] = rows[i]
                 /\ res'[p].memory = rows'[id]]_vars

\* A metadata patch on a record with a non-default context and a read
\* already counted has been committed: metadata replaced, the rest kept.
C11_Witness ==
    \E p \in Procs :
        /\ Done(p, "update", "ok")
        /\ "metadata" \in DOMAIN req[p].patch
        /\ req[p].id \in DOMAIN rows
        /\ rows[req[p].id].metadata = req[p].patch.metadata
        /\ rows[req[p].id].context = "work"
        /\ rows[req[p].id].content = "b"

(* ------------------------------ search -------------------------------- *)

\* The search of p returns in this step.
SearchEnds(p) == req[p].op = "search" /\ Ends(p, "ok")

SeqIds(s) == { s[i].id : i \in DOMAIN s }

\* C12: with include_semantic and include_keyword both true, the keyword leg
\* runs even when the semantic leg returned results: every keyword match
\* whose id is not among the semantic results is in the merged list, with
\* score 0.5, before ordering and truncation (judged where the keyword
\* matches fit within limit, so that the query's own cap drops none).
C12_KeywordLegSupplements ==
    [][\A p \in Procs :
          (/\ SearchEnds(p)
           /\ req[p].search.include_semantic
           /\ req[p].search.include_keyword) =>
              LET request == req[p].search
                  matches == KeywordMatches(rows, request)
                  merged == res'[p].merged
              IN Cardinality(matches) <= request.limit =>
                    \A m \in matches :
                        m.id \notin SeqIds(sess[p].memories) =>
                            \E i \in DOMAIN merged :
                                /\ merged[i].id = m.id
                                /\ merged[i].similarity_score = KeywordScore]_vars

\* C13: the search_type returned is "keyword" whenever include_semantic is
\* false, and "hybrid" whenever include_semantic and include_keyword are both
\* true, whatever either leg found.
C13_SearchTypeLabels ==
    [][\A p \in Procs :
          SearchEnds(p) =>
              LET request == req[p].search
              IN /\ ~request.include_semantic => res'[p].search_type = "keyword"
                 /\ (request.include_semantic /\ request.include_keyword) =>
                        res'[p].search_type = "hybrid"]_vars

\* C14: a search that matches nothing returns the empty list with its leg
\* named: "semantic" when only the semantic leg was requested, "keyword"
\* when the semantic leg was disabled and the keyword leg requested.
C14_EmptyResultLabelled ==
    [][\A p \in Procs :
          (SearchEnds(p) /\ res'[p].memories = << >>) =>
              LET request == req[p].search
              IN /\ (request.include_semantic /\ ~request.include_keyword) =>
                        res'[p].search_type = "semantic"
                 /\ (~request.include_semantic /\ request.include_keyword) =>
                        res'[p].search_type = "keyword"]_vars

\* A search has returned.
Searched(p) == req[p].op = "search" /\ pc[p] = "done" /\ res[p].status = "ok"

\* C15: no memory id appears twice in the list a search returns, nor in the
\* response made of it, whatever the stores hold and whatever the flags.
C15_NoDuplicateIds ==
    \A p \in Procs :
        Searched(p) =>
            /\ \A i, j \in DOMAIN res[p].memories :
                   i # j => res[p].memories[i].id # res[p].memories[j].id
            /\ \A i, j \in DOMAIN res[p].response.memories :
                   i # j => res[p].response.memories[i].id # res[p].response.memories[j].id

\* A search with both legs requested has returned a memory that the index
\* scored above the threshold and whose content also contains the query.
C15_Witness ==
    \E p \in Procs :
        /\ Searched(p)
        /\ req[p].search.include_semantic
        /\ req[p].search.include_keyword
        /\ \E i \in DOMAIN res[p].memories :
              /\ res[p].memories[i].similarity_score >= req[p].search.min_similarity
              /\ ILike(res[p].memories[i].content, req[p].search.query)
              /\ \E m \in KeywordMatches(rows, req[p].search) :
                    m.id = res[p].memories[i].id

\* C16: a search with include_semantic false and include_keyword true hands
\* the caller search_type "keyword" and every matching memory (those that
\* fit within limit), each with similarity_score 0.5 in the response.
C16_KeywordScoreReachesCaller ==
    \A p \in Procs :
        (/\ Searched(p)
         /\ ~req[p].search.include_semantic
         /\ req[p].search.include_keyword) =>
            LET request == req[p].search
                matches == KeywordMatches(rows, request)
                out == res[p].response
            IN /\ out.search_type = "keyword"
               /\ Cardinality(matches) <= request.limit =>
                      \A m \in matches :
                          \E i \in DOMAIN out.memories : out.memories[i].id = m.id
               /\ \A i \in DOMAIN out.memories :
                      out.memories[i].similarity_score = <<KeywordScore>>

\* a comes no later than b in descending lexicographic order of
\* (similarity score, importance_score, created_at).
NotAfter(a, b) ==
    \/ a.similarity_score > b.similarity_score
    \/ /\ a.similarity_score = b.similarity_score
       /\ a.importance_score > b.importance_score
    \/ /\ a.similarity_score = b.similarity_score
       /\ a.importance_score = b.importance_score
       /\ a.created_at >= b.created_at

SeqItems(s) == { s[i] : i \in DOMAIN s }

\* C17: the list a search returns is in descending lexicographic order of
\* (similarity score, importance_score, created_at), has at most limit
\* elements and consists of the first limit elements of the merged list
\* under that order; so two keyword matches of equal importance_score and
\* different created_at come more recent first.
C17_SortedAndTruncated ==
    \A p \in Procs :
        Searched(p) =>
            LET memories == res[p].memories
                merged == res[p].merged
                limit == req[p].search.limit
            IN /\ \A i, j \in DOMAIN memories :
                      i < j => NotAfter(memories[i], memories[j])
               /\ Len(memories) <= limit
               /\ Len(memories) = Min(limit, Len(merged))
               /\ SeqItems(memories) \subseteq SeqItems(merged)
               /\ \A x \in SeqItems(merged) \ SeqItems(memories) :
                      \A y \in SeqItems(memories) : NotAfter(y, x)
               /\ \A i, j \in DOMAIN memories :
                      (/\ i < j
                       /\ memories[i].similarity_score = KeywordScore
                       /\ memories[j].similarity_score = KeywordScore
                       /\ memories[i].importance_score = memories[j].importance_score
                       /\ memories[i].created_at # memories[j].created_at) =>
                          memories[i].created_at > memories[j].created_at

\* A keyword search has returned two matches of equal importance_score,
\* the more recent one first.
C17_Witness ==
    \E p \in Procs :
        /\ Searched(p)
        /\ ~req[p].search.include_semantic
        /\ Len(res[p].memories) = 2
        /\ res[p].memories[1].similarity_score = KeywordScore
        /\ res[p].memories[1].importance_score = res[p].memories[2].importance_score
        /\ res[p].memories[1].created_at > res[p].memories[2].created_at

\* C18: for fixed contents of both stores and a fixed request, search
\* returns one ordered list, whatever order the stores hand their rows back
\* in, also when results tie on the sort key (judged with no request in
\* flight and no failure so far, so that the stores are at rest and agree).
C18_SearchDeterministic ==
    (Quiescent /\ faults = 0) =>
        \A request \in Searches :
            Cardinality(SearchOutcomes(rows, vindex, request)) = 1

\* m is the committed row of its id as the table holds it now.
IsCommittedRow(m) ==
    /\ m.id \in DOMAIN rows
    /\ \A f \in DOMAIN rows[m.id] : m[f] = rows[m.id][f]

\* C19: every memory of a search result is a row that exists, committed,
\* when its leg reads the table: at the step that resolves the semantic
\* ids each resolved memory is a committed row and carries the score the
\* index returned for its id, and the ids that resolve to no row (points of
\* deleted rows or of creates not yet committed) yield nothing; the list
\* returned holds only memories resolved so or rows read by the keyword
\* query.
C19_ResultsAreCommittedRows ==
    [][\A p \in Procs :
          /\ (pc[p] = "s_resolve" /\ pc'[p] # "s_resolve") =>
                LET hits == sess[p].hits
                    memories == sess'[p].memories
                IN /\ \A i \in DOMAIN memories :
                          /\ IsCommittedRow(memories[i])
                          /\ \E h \in DOMAIN hits :
                                /\ hits[h].memory_id = Str(memories[i].id)
                                /\ hits[h].similarity_score = memories[i].similarity_score
                   /\ \A h \in DOMAIN hits :
                          UUID(hits[h].memory_id) \notin DOMAIN rows =>
                              UUID(hits[h].memory_id) \notin SeqIds(memories)
          /\ SearchEnds(p) =>
                \A i \in DOMAIN res'[p].memories :
                    \/ res'[p].memories[i] \in SeqItems(sess[p].memories)
                    \/ IsCommittedRow(res'[p].memories[i])]_vars

\* The semantic leg got two hits of which one resolved to no row; the one
\* that resolved is kept with its score.
C19_Witness ==
    \E p \in Procs :
        /\ req[p].op = "search"
        /\ pc[p] = "s_keyword"
        /\ Len(sess[p].hits) = 2
        /\ Len(sess[p].memories) = 1
        /\ \E h \in DOMAIN sess[p].hits :
              /\ sess[p].hits[h].memory_id = Str(sess[p].memories[1].id)
              /\ sess[p].hits[h].similarity_score = sess[p].memories[1].similarity_score

(* ------------------------------- C20 ---------------------------------- *)

\* A tracked read of id commits in this step.
TrackedReadCommits(p, id) ==
    /\ req[p].op = "get"
    /\ req[p].id = id
    /\ pc[p] = "g_commit"
    /\ Ends(p, "ok")

\* C20: run one request at a time, a tracked get_memory of an existing
\* record raises its access_count by exactly 1, sets last_accessed and
\* returns the record with the raised count; a record starts at 0 and no
\* other step changes its count, so the first tracked read after creation
\* returns 1 and the k-th returns k.
C20_TrackedReadCountsOnce ==
    [][/\ \A p \in Procs, id \in DOMAIN rows :
             TrackedReadCommits(p, id) =>
                 /\ id \in DOMAIN rows'
                 /\ rows'[id].access_count = rows[id].access_count + 1
                 /\ rows'[id].last_accessed # << >>
                 /\ res'[p].memory = rows'[id]
       /\ \A id \in DOMAIN rows' :
             /\ id \notin DOMAIN rows => rows'[id].access_count = 0
             /\ (id \in DOMAIN rows /\ ~\E p \in Procs : TrackedReadCommits(p, id)) =>
                    rows'[id].access_count = rows[id].access_count]_vars

\* The second tracked read of a record has returned access_count 2.
C20_Witness ==
    \E p \in Procs :
        /\ Done(p, "get", "ok")
        /\ req[p].track
        /\ res[p].memory.access_count = 2
        /\ res[p].memory.last_accessed # << >>
        /\ req[p].id \in DOMAIN rows
        /\ rows[req[p].id].access_count = 2

(* ------------------------------- reads -------------------------------- *)

\* p takes a step of a call that only reads: an untracked get_memory, a
\* search, a recent list or the statistics.
ReadOnlyStep(p) ==
    /\ pc'[p] # pc[p]
    /\ \/ req'[p].op \in {"search", "recent", "stats"}
       \/ req'[p].op = "get" /\ ~req'[p].track

\* C21: no step of an untracked get_memory, of search_memories, of
\* get_recent_memories or of get_memory_stats changes a row (access_count and
\* last_accessed included) or the vector index.
C21_ReadsDoNotMutate ==
    [][\A p \in Procs : ReadOnlyStep(p) => (rows' = rows /\ vindex' = vindex)]_vars

\* An untracked read has returned a record that is still at access_count 0
\* with no last_accessed.
C21_Witness ==
    \E p \in Procs :
        /\ Done(p, "get", "ok")
        /\ ~req[p].track
        /\ req[p].id \in DOMAIN rows
        /\ res[p].memory = rows[req[p].id]
        /\ rows[req[p].id].access_count = 0
        /\ rows[req[p].id].last_accessed = << >>

\* C22: the commit of a tracked get_memory changes only access_count and
\* last_accessed of the record read: its other columns (content, context,
\* tags, metadata, importance_score, vector_id, created_at, updated_at,
\* ...), every other row and the vector index stay as they were.
C22_TrackedReadFrame ==
    [][\A p \in Procs, id \in DOMAIN rows :
          TrackedReadCommits(p, id) =>
              /\ DOMAIN rows' = DOMAIN rows
              /\ \A f \in DOMAIN rows[id] \ {"access_count", "last_accessed"} :
                     rows'[id][f] = rows[id][f]
              /\ \A i \in DOMAIN rows \ {id} : rows'[i] = rows[i]
              /\ vindex' = vindex]_vars

\* C23: access_count starts at 0 and never decreases: in every execution,
\* interleaved tracked reads and updates of one id included, each value
\* committed is at least the value committed before it.
C23_AccessCountMonotonic ==
    [][\A id \in DOMAIN rows' :
          IF id \in DOMAIN rows
          THEN rows'[id].access_count >= rows[id].access_count
          ELSE rows'[id].access_count = 0]_vars

\* C24: last_accessed is null exactly while access_count is 0, in every
\* committed row of every reachable state, and only the commit of a tracked
\* get_memory of the record sets or changes it: create, update, delete,
\* search, recent lists, statistics and untracked reads never do.
C24_LastAccessedIffRead ==
    [][\A id \in DOMAIN rows' :
          /\ (rows'[id].last_accessed = << >>) <=> (rows'[id].access_count = 0)
          /\ (IF id \in DOMAIN rows
              THEN rows'[id].last_accessed # rows[id].last_accessed
              ELSE rows'[id].last_accessed # << >>) =>
                 \E p \in Procs : TrackedReadCommits(p, id)]_vars

\* One record has been read (count and stamp set) while another, never
\* read, still has neither.
C24_Witness ==
    \E i, j \in DOMAIN rows :
        /\ rows[i].access_count >= 1
        /\ rows[i].last_accessed # << >>
        /\ rows[j].access_count = 0
        /\ rows[j].last_accessed = << >>

(* ------------------------------- C25 ---------------------------------- *)

\* id was handed out and has no row and no create in flight: its row was
\* deleted (or its create failed).
Gone(id) ==
    /\ id \in 1 .. nextId
    /\ id \notin DOMAIN rows
    /\ ~\E p \in Procs : InCreate(p) /\ req[p].id = id

\* C25: once delete_memory(id) has returned true the row is gone for good:
\* the delete's commit removes it, a row that is gone never comes back, a
\* get_memory, update_memory or delete_memory of it started afterwards
\* reports not-found (the delete: false), and no row read by a search, a
\* recent list or the statistics afterwards includes it.
C25_DeletedStaysGone ==
    [][/\ \A p \in Procs :
             (InDelete(p) /\ pc[p] = "d_commit" /\ Ends(p, "ok")) =>
                 req[p].id \notin DOMAIN rows'
       /\ \A id \in Ids : Gone(id) => id \notin DOMAIN rows'
       /\ \A p \in Procs :
             (/\ pc[p] = "idle"
              /\ pc'[p] # "idle"
              /\ req'[p].op \in {"get", "update", "delete"}
              /\ Gone(req'[p].id)) =>
                 (pc'[p] = "done" /\ res'[p].status = "notfound")
       /\ \A p \in Procs :
             /\ (pc[p] = "s_resolve" /\ pc'[p] # "s_resolve") =>
                   SeqIds(sess'[p].memories) \subseteq DOMAIN rows
             /\ SearchEnds(p) =>
                   \A i \in DOMAIN res'[p].memories :
                       \/ res'[p].memories[i] \in SeqItems(sess[p].memories)
                       \/ res'[p].memories[i].id \in DOMAIN rows
             /\ (pc[p] = "idle" /\ req'[p].op = "recent") =>
                   SeqIds(res'[p].memories) \subseteq DOMAIN rows
             /\ (pc[p] = "idle" /\ req'[p].op = "stats") =>
                   sess'[p].total_memories = Cardinality(DOMAIN rows)]_vars

\* With no failure so far and one request at a time, a get_memory of an id
\* that was created and then deleted has reported not-found.
C25_Witness ==
    \E p \in Procs :
        /\ Done(p, "get", "notfound")
        /\ faults = 0
        /\ Gone(req[p].id)

(* ------------------------------- C26 ---------------------------------- *)

\* C26: get_memory, update_memory and delete_memory of an id that has no row
\* report not-found (None, None, False) as their ordinary result, at once:
\* no step of the embedding generator or of the vector index follows, and
\* neither store changes.
C26_NotFoundTouchesNothing ==
    [][\A p \in Procs :
          (/\ pc[p] = "idle"
           /\ pc'[p] # "idle"
           /\ req'[p].op \in {"get", "update", "delete"}
           /\ req'[p].id \notin DOMAIN rows) =>
              /\ pc'[p] = "done"
              /\ res'[p] = [status |-> "notfound", memory |-> NoMemory, kind |-> "-"]
              /\ rows' = rows
              /\ vindex' = vindex
              /\ faults' = faults]_vars

\* An update_memory of an id without a row has reported not-found while the
\* stores hold another memory.
C26_Witness ==
    \E p \in Procs :
        /\ Done(p, "update", "notfound")
        /\ req[p].id \notin DOMAIN rows
        /\ DOMAIN rows # {}
        /\ DOMAIN vindex # {}

(* ------------------------ C27: field constraints ---------------------- *)

\* A create body that breaks a constraint of the request: content missing,
\* empty, whitespace only or longer than 10,000 characters, or an integer
\* importance_score outside 1..10.
ViolatesCreate(body) ==
    \/ "content" \notin DOMAIN body
    \/ /\ "content" \in DOMAIN body
       /\ \/ body.content \in {"", "  "}
          \/ Len(body.content) > 10000
    \/ /\ "importance_score" \in DOMAIN body
       /\ body.importance_score # NullInt
       /\ body.importance_score \notin 1 .. 10

\* An update body whose integer importance_score is outside 1..10.
ViolatesUpdate(body) ==
    /\ "importance_score" \in DOMAIN body
    /\ body.importance_score # NullInt
    /\ body.importance_score \notin 1 .. 10

\* The request of p is answered at once as invalid: no step of the service
\* is taken, no id is drawn, both stores stay as they were.
RejectedStep(p) ==
    /\ pc[p] = "idle" /\ pc'[p] = "done"
    /\ res'[p].status = "invalid"
    /\ sess'[p] = NoSess
    /\ rows' = rows /\ vindex' = vindex /\ nextId' = nextId

\* C27: a request that violates a field constraint is rejected before the
\* service is reached and leaves both stores unchanged: a create whose
\* content is missing, empty, whitespace only or longer than 10,000
\* characters or whose importance_score is outside 1..10, and an update
\* whose importance_score is outside 1..10 (such as 11).
C27_InvalidRequestsRejected ==
    [][\A p \in Procs :
          /\ \A body \in CreateBodies :
                (ViolatesCreate(body) /\ CreateRoute(p, body)) => RejectedStep(p)
          /\ \A id \in Ids, body \in UpdateBodies :
                (ViolatesUpdate(body) /\ UpdateRoute(p, id, body)) => RejectedStep(p)
          /\ (pc[p] = "idle" /\ pc'[p] = "c_embed") =>
                LET d == req'[p].draft
                IN /\ d.content \notin {"", "  "}
                   /\ Len(d.content) <= 10000
                   /\ d.importance_score = NullInt \/ d.importance_score \in 1 .. 10
          /\ (pc[p] = "idle" /\ req'[p].op = "update"
                /\ "importance_score" \in DOMAIN req'[p].patch) =>
                \/ req'[p].patch.importance_score = NullInt
                \/ req'[p].patch.importance_score \in 1 .. 10]_vars

\* C27 witness: with a memory stored, an update of it has been answered as
\* invalid.
C27_Witness ==
    /\ rows # << >>
    /\ \E p \in Procs :
          /\ pc[p] = "done" /\ req[p].op = "update"
          /\ res[p].status = "invalid"

(* --------------------- C28: stored fields in bounds ------------------- *)

\* C28: in every reachable state every stored memory has an integer
\* importance_score within 1..10 and non-empty content, whatever creates and
\* updates passed validation, patches with an explicit null included.
C28_StoredFieldsInBounds ==
    \A id \in DOMAIN rows :
        /\ rows[id].importance_score \in 1 .. 10
        /\ rows[id].content \notin {"", None}

(* ----------------------- C29: batch creation -------------------------- *)

\* The ids of the items of a finished batch that were created, in order.
CreatedIds(ids, outcomes) ==
    SelectSeq(ids, LAMBDA x : \E i \in DOMAIN ids : ids[i] = x /\ outcomes[i] = "ok")

\* C29: in a batch the failure of one item (embedding or index write) does
\* not abort its siblings: when the batch is answered every item has been
\* attempted, every item that succeeded is written in both stores, every
\* item that failed has no row, and the answer is the list of exactly the
\* items that succeeded.
C29_BatchItemsIndependent ==
    \A p \in Procs :
        (pc[p] = "done" /\ req[p].op = "batch") =>
            LET items == req[p].items
                ids == res[p].ids
                outcomes == res[p].outcomes
            IN /\ Len(outcomes) = Len(items)
               /\ \A i \in DOMAIN outcomes :
                     /\ outcomes[i] = "ok" =>
                           /\ ids[i] \in DOMAIN rows
                           /\ rows[ids[i]].content = items[i].content
                           /\ rows[ids[i]].vector_id = ToString(ids[i])
                           /\ ToString(ids[i]) \in DOMAIN vindex
                     /\ outcomes[i] \in {"embedding", "index_write"} =>
                           ids[i] \notin DOMAIN rows
               /\ res[p].status = "ok"
               /\ [j \in DOMAIN res[p].response |-> res[p].response[j].id]
                     = CreatedIds(ids, outcomes)

(* ------------------- C30: failure kinds of GetMemory ------------------ *)

\* C30: GetMemory reports not-found only when no row exists for the id; a
\* failure of the relational store during the fetch reaches the caller as
\* something else than not-found.
C30_NotFoundOnlyWhenAbsent ==
    \A p \in Procs :
        (pc[p] = "done" /\ req[p].op = "get" /\ res[p].status = "notfound")
            => req[p].id \notin DOMAIN rows

(* ---------------- C31: repair of vector-gone, row-remains ------------- *)

\* The row of id is there and the index holds its content under its key.
Indexed(rs, vi, id) ==
    /\ id \in DOMAIN rs
    /\ ToString(id) \in DOMAIN vi
    /\ vi[ToString(id)].payload.content = rs[id].content

\* The retried delete: an index delete that finds no entry under the key is
\* no error, and a delete that returns true has removed the row.
RetriedDeleteRepairs(p) ==
    /\ (pc[p] = "d_vdelete" /\ ToString(req[p].id) \notin DOMAIN vindex
           /\ faults' = faults)
          => (pc'[p] = "d_commit" /\ vindex' = vindex /\ rows' = rows)
    /\ (req[p].op = "delete" /\ Ends(p, "ok"))
          => (req[p].id \notin DOMAIN rows'
                /\ ToString(req[p].id) \notin DOMAIN vindex')

\* The request of p was taken up after a delete of the same memory had
\* failed at its commit, its index delete done.
AfterFailedDelete(p) ==
    \E q \in Procs \ {p} :
        /\ Done(q, "delete", "raised") /\ res[q].kind = "commit"
        /\ req[q].id = req[p].id

\* C31 as stated: with requests served one at a time, from the state left
\* by a delete whose commit failed after its index delete, a retried delete
\* succeeds and removes the row, and every update of the memory that
\* succeeds leaves the row with its index entry again.
C31_RepairedByRetry ==
    [][\A p \in Procs :
          /\ RetriedDeleteRepairs(p)
          /\ (req[p].op = "update" /\ Ends(p, "ok") /\ AfterFailedDelete(p))
                => Indexed(rows', vindex', req[p].id)]_vars

\* C31 as amended: the retried delete repairs as stated; an update repairs
\* when its patch carries content, and an update whose patch carries no
\* content leaves the index as it was, the entry still missing.
C31_RepairedByContentUpdate ==
    [][\A p \in Procs :
          /\ RetriedDeleteRepairs(p)
          /\ (req[p].op = "update" /\ Ends(p, "ok")
                /\ "content" \in DOMAIN req[p].patch)
                => Indexed(rows', vindex', req[p].id)
          /\ (req[p].op = "update" /\ Ends(p, "ok")
                /\ "content" \notin DOMAIN req[p].patch)
                => vindex' = vindex]_vars

\* C31 witness: a delete of the memory failed at its commit, after the
\* index entry was removed, and a later update carrying content has put
\* the entry back.
C31_Witness ==
    \E p, q \in Procs :
        /\ Done(q, "delete", "raised") /\ res[q].kind = "commit"
        /\ Done(p, "update", "ok") /\ req[p].id = req[q].id
        /\ "content" \in DOMAIN req[p].patch
        /\ Indexed(rows, vindex, req[p].id)

(* ------------------------ C32: recent memories ------------------------ *)

\* The ids of the rows that pass the filters a recent request gives.
RecentWanted(request) ==
    { i \in DOMAIN rows :
        /\ request.user_id # None => rows[i].user_id = request.user_id
        /\ request.context # None => rows[i].context = request.context }

\* C32: GetRecentMemories(limit, user_id, context) returns rows of the
\* table that match every filter given, without repetition, newest first,
\* exactly min(limit, number of matching rows) of them, and no matching row
\* left out is newer than one returned.
C32_RecentNewestMatching ==
    [][\A p \in Procs :
          (pc[p] = "idle" /\ pc'[p] = "done" /\ req'[p].op = "recent") =>
             LET ms == res'[p].memories
                 request == req'[p].recent
                 wanted == RecentWanted(request)
                 got == { ms[i].id : i \in DOMAIN ms }
             IN /\ res'[p].status = "ok"
                /\ Len(ms) = IF Cardinality(wanted) < request.limit
                             THEN Cardinality(wanted) ELSE request.limit
                /\ \A i \in DOMAIN ms : ms[i].id \in wanted /\ ms[i] = rows[ms[i].id]
                /\ \A i, j \in DOMAIN ms :
                      i < j => (ms[i].id # ms[j].id
                                  /\ ms[i].created_at >= ms[j].created_at)
                /\ \A k \in wanted \ got : \A i \in DOMAIN ms :
                      ms[i].created_at >= rows[k].created_at]_vars

\* C32 witness: two rows match, the limit is 1, and the one returned is the
\* newer of the two.
C32_Witness ==
    \E p \in Procs :
        /\ Done(p, "recent", "ok")
        /\ req[p].recent.limit = 1
        /\ Cardinality(RecentWanted(req[p].recent)) = 2
        /\ Len(res[p].memories) = 1
        /\ \A k \in RecentWanted(req[p].recent) :
              res[p].memories[1].created_at >= rows[k].created_at

(* --------------------------- C33: statistics -------------------------- *)

\* The key a row is counted under: its context, "uncategorized" when it
\* has none.
CountedUnder(m) == IF m.context = None THEN "uncategorized" ELSE m.context

RECURSIVE SumCounts(_, _)
SumCounts(d, S) ==
    IF S = {} THEN 0
    ELSE LET k == CHOOSE k \in S : TRUE
         IN d[k] + SumCounts(d, S \ {k})

\* C33: GetStats reports total_memories equal to the number of stored rows
\* and memories_by_context giving, for each context, the number of rows
\* with that context, rows without context counted under "uncategorized";
\* the per-context counts sum to total_memories.
C33_StatsCountsAddUp ==
    \A p \in Procs :
        Done(p, "stats", "ok") =>
            LET stats == res[p].stats
                d == stats.memories_by_context
            IN /\ stats.total_memories = Cardinality(DOMAIN rows)
               /\ DOMAIN d = { CountedUnder(rows[i]) : i \in DOMAIN rows }
               /\ \A k \in DOMAIN d :
                     d[k] = Cardinality({ i \in DOMAIN rows : CountedUnder(rows[i]) = k })
               /\ SumCounts(d, DOMAIN d) = stats.total_memories

(* ---------------------- C34: vector_id of a row ----------------------- *)

\* C34: every committed row has vector_id equal to the string form of its
\* id, in every interleaving: the row is committed once, with vector_id
\* set, and neither an update nor a tracked read changes it; so every
\* memory a request is handed carries that vector_id too.
C34_VectorIdIsOwnId ==
    /\ \A id \in DOMAIN rows : rows[id].vector_id = ToString(id)
    /\ \A p \in Procs :
          (pc[p] = "done" /\ req[p].op \in {"create", "get", "update"}
              /\ res[p].status = "ok")
             => res[p].memory.vector_id = ToString(res[p].memory.id)

\* C34 witness: a memory has been read with tracking, its row rewritten by
\* that read, while another create is in flight, its row flushed and not
\* yet committed.
C34_Witness ==
    \E p, q \in Procs :
        /\ pc[q] = "c_commit"
        /\ req[q].id \notin DOMAIN rows
        /\ Done(p, "get", "ok") /\ req[p].track
        /\ rows[req[p].id].access_count = 1
        /\ rows[req[p].id].updated_at > rows[req[p].id].created_at

(* ------------------- C35: failed update and the index ----------------- *)

\* C35: with requests served one at a time, an update whose re-index failed
\* (deleting the old entry, generating the embedding or upserting the new
\* entry) leaves both stores as they were: the index still holds the entry
\* of the memory, with the content its unchanged row has.
C35_FailedUpdateKeepsEntry ==
    \A p \in Procs :
        (/\ Done(p, "update", "raised")
         /\ res[p].kind \in {"index_delete", "embedding", "index_write"}
         /\ req[p].id \in DOMAIN rows)
           => /\ ToString(req[p].id) \in DOMAIN vindex
              /\ vindex[ToString(req[p].id)].payload.content = rows[req[p].id].content

(* ------------------ C36: failed index delete in a delete -------------- *)

\* The delete of q failed at its index delete and has been answered so.
IndexDeleteFailed(q) ==
    Done(q, "delete", "raised") /\ res[q].kind = "index_delete"

\* C36: with requests served one at a time, a delete whose index delete
\* fails ends as a failure with the row still there and table and index
\* unchanged, and a GetMemory of that memory that follows, itself meeting
\* no failure, returns the row: with the fields the row had, but for the
\* access tracking of that read.
C36_FailedIndexDeleteKeepsRow ==
    [][\A p \in Procs :
          /\ (req[p].op = "delete" /\ Ends(p, "raised")
                /\ res'[p].kind = "index_delete")
                => (rows' = rows /\ vindex' = vindex
                      /\ req[p].id \in DOMAIN rows')
          /\ \A q \in Procs \ {p} :
                (/\ IndexDeleteFailed(q)
                 /\ pc[p] # "done" /\ pc'[p] = "done"
                 /\ req'[p].op = "get" /\ req'[p].id = req[q].id
                 /\ req[q].id \in DOMAIN rows
                 /\ faults' = faults)
                   => /\ res'[p].status = "ok"
                      /\ res'[p].memory = rows'[req[q].id]
                      /\ \A f \in DOMAIN rows[req[q].id] \
                                    {"access_count", "last_accessed", "updated_at"} :
                            res'[p].memory[f] = rows[req[q].id][f]]_vars

\* C36 witness: after a delete of the memory failed at its index delete, a
\* GetMemory of the same id has found the row and is about to commit its
\* access tracking.
C36_Witness ==
    \E p, q \in Procs :
        /\ IndexDeleteFailed(q)
        /\ pc[p] = "g_commit" /\ req[p].id = req[q].id
        /\ sess[p].orig = rows[req[q].id]
        /\ ToString(req[q].id) \in DOMAIN vindex

(* ------------------------------- C37 ---------------------------------- *)

\* C37: every memory a search returns satisfies every filter of the request
\* with respect to its row as it is when the search answers: context,
\* user_id and conversation_id equal the requested ones and the tags
\* contain every requested tag, whichever leg produced it and whatever
\* updates came before -- here with one request at a time and no failure.
C37_ResultsMatchFilters ==
    [][\A p \in Procs :
          (SearchEnds(p) /\ res'[p].status = "ok" /\ faults' = 0) =>
             \A k \in DOMAIN res'[p].memories :
                LET id == res'[p].memories[k].id
                    request == req'[p].search
                IN /\ id \in DOMAIN rows'
                   /\ \A f \in VectorFilters(request) : rows'[id][f] = request[f]
                   /\ \A t \in DOMAIN request.tags :
                         \E u \in DOMAIN rows'[id].tags :
                            rows'[id].tags[u] = request.tags[t]]_vars

(* ------------------------------- C38 ---------------------------------- *)

\* C38: in every state with no request in flight that was reached without
\* any failure of a store or of the embedding model, the content held in the
\* vector index entry of each memory equals the content of its row, also
\* after two update_memory calls changing the content of one id overlapped
\* and both succeeded.
C38_QuiescentContentAgrees ==
    (Quiescent /\ faults = 0) =>
        \A id \in DOMAIN rows :
            Str(id) \in DOMAIN vindex =>
                vindex[Str(id)].payload.content = rows[id].content

(* ------------------------------- C39 ---------------------------------- *)

\* The requests of client c, other than health checks, that were handed on
\* at a time from t to t + 60, in the log s.
AdmittedIn(s, c, t) ==
    { i \in DOMAIN s : /\ s[i].client = c
                       /\ s[i].path # "/health"
                       /\ s[i].status = "call_next"
                       /\ s[i].time >= t
                       /\ s[i].time <= t + Window }

\* A request has just been answered by the limiter.
Answered == Len(served') = Len(served) + 1

\* C39: for each client at most calls_per_minute requests other than health
\* checks are admitted within any 60 seconds, whatever the request times;
\* a request is rejected exactly when calls_per_minute admitted requests of
\* its own client lie within the last 60 seconds, so that the requests of
\* other clients play no part and no other client's window is touched; a
\* request for /health is always admitted and recorded in no window.
C39_LimitPerClient ==
    [][Answered =>
          LET last == served'[Len(served')]
          IN /\ \A c \in Clients, i \in DOMAIN served' :
                   Cardinality(AdmittedIn(served', c, served'[i].time)) <= CallsPerMinute
             /\ \A d \in Clients \ {last.client} : requests'[d] = requests[d]
             /\ last.path # "/health" =>
                   ((last.status = "429") <=>
                       Cardinality(AdmittedIn(served, last.client, now - Window))
                           >= CallsPerMinute)
             /\ last.path = "/health" =>
                   (last.status = "call_next" /\ requests' = requests)]_vars

\* A client at its limit has been rejected, and at the same moment its
\* health check was admitted.
C39_Witness ==
    \E i, j \in DOMAIN served :
        /\ i < j
        /\ served[i].status = "429"
        /\ served[j].client = served[i].client
        /\ served[j].time = served[i].time
        /\ served[j].path = "/health"
        /\ served[j].status = "call_next"
        /\ Len(requests[served[i].client]) = CallsPerMinute

(* ------------------------------- C40 ---------------------------------- *)

\* The times at which requests of client c other than health checks were
\* handed on, in order.
RECURSIVE AdmittedTimes(_, _)
AdmittedTimes(s, c) ==
    IF s = << >>
    THEN << >>
    ELSE LET a == Head(s)
         IN IF a.client = c /\ a.path # "/health" /\ a.status = "call_next"
            THEN <<a.time>> \o AdmittedTimes(Tail(s), c)
            ELSE AdmittedTimes(Tail(s), c)

\* w is what is left of s when entries are dropped from its head.
IsSuffix(w, s) ==
    /\ Len(w) <= Len(s)
    /\ w = SubSeq(s, Len(s) - Len(w) + 1, Len(s))

NonDecreasing(w) == \A i, j \in DOMAIN w : i <= j => w[i] <= w[j]

\* The window is full and its oldest time is more than 60 seconds old.
FullButOld(w) == Len(w) >= CallsPerMinute /\ w[1] < now - Window

\* C40: a request answered with 429 adds nothing to its client's window; a
\* client whose window is full is admitted as soon as the oldest time in it
\* is more than 60 seconds old, whatever was rejected in between; and a
\* window only ever holds times of admitted requests of its client, in
\* non-decreasing order (the latest of them, none dropped in between). The
\* same of the list kept by is_rate_limited.
C40_RejectedNotRecorded ==
    [][Answered =>
          LET last == served'[Len(served')]
              c == last.client
              was == Calls(served, c)
              out == IsRateLimited(was, now)
          IN /\ last.status = "429" => IsSuffix(requests'[c], requests[c])
             /\ (last.path # "/health" /\ FullButOld(requests[c])) =>
                   last.status = "call_next"
             /\ \A d \in Clients :
                   /\ IsSuffix(requests'[d], AdmittedTimes(served', d))
                   /\ NonDecreasing(requests'[d])
             /\ out.limited => IsSuffix(out.calls, was)
             /\ FullButOld(was) => ~out.limited
             /\ NonDecreasing(out.calls)
             /\ \A k \in DOMAIN out.calls :
                   \E i \in DOMAIN served' :
                      served'[i].client = c /\ served'[i].time = out.calls[k]]_vars

\* A client was rejected at its limit and later, its oldest admitted request
\* more than 60 seconds old, admitted again.
C40_Witness ==
    \E i, j, k \in DOMAIN served :
        /\ i < j /\ j < k
        /\ served[i].client = served[j].client
        /\ served[k].client = served[j].client
        /\ served[i].status = "call_next" /\ served[i].path # "/health"
        /\ served[j].status = "429"
        /\ served[k].status = "call_next" /\ served[k].path # "/health"
        /\ served[k].time > served[i].time + Window
        /\ Len(requests[served[k].client]) = CallsPerMinute

====
